---------------------------- MODULE Spec2Model ----------------------------
(***************************************************************************)
(* Model of the WeatherAppPY pipeline: the time-series repair engine and   *)
(* the download run of data.py, the forecast run of actualizarpronostico.py*)
(* and the walk-forward forecaster of modelo_pronostico.py.                *)
(*                                                                         *)
(* Physical values are fixed-point integers in hundredths of their unit    *)
(* (12.3 degrees C is 1230, 2.5 mm is 250); timestamps are whole hours.    *)
(***************************************************************************)
EXTENDS Integers, Sequences, FiniteSets, TLC

VARIABLES
    \* ---- repair engine (rellenar_horas_perdidas as a function of its input)
    rIn,            \* the frame handed to rellenar_horas_perdidas
    rOut,           \* its outcome: [raised, df]
    rPc,            \* "entrada" | "hecho"
    \* ---- merge block of procesar_provincia as a function of its two frames
    mExistente,     \* df_existente
    mData,          \* data (the freshly fetched, processed frame)
    mFinal,         \* df_final
    mPc,            \* "entrada" | "hecho"
    \* ---- download run (data.py, module level and procesar_provincia)
    hoy,            \* the local calendar day the clock shows
    archivo,        \* per province, the persisted series: [existe, df]
    runPc,          \* "inactivo" | "corriendo" | "terminado"
    tpc,            \* per province, where its task stands
    tLocal,         \* per province, the locals of its task
    lock,           \* meteostat_lock: its holder, or "libre"
    futuro,         \* per province, the result its future holds
    status,         \* the status report: estado -> list of provinces
    recogidos,      \* the futures as_completed has already yielded
    \* ---- forecast run (actualizarpronostico.py)
    reloj,          \* the local calendar day datetime.now() shows
    pronFile,       \* web/pronostico.json
    carFile,        \* web/carousel.json
    aPc,            \* where main() stands
    aFlags,         \* [pron, car]: actualizar_pronostico, actualizar_carousel
    aTarea,         \* per province, the outcome of its task, once it ended
    aRecogidos,     \* the futures main() has already taken
    aResult,        \* [pron, car]: pronostico_result, carousel_result
    previo,         \* the run before this one: its days and what it wrote
    actual,         \* this run: its first day and whether it wrote
    \* ---- walk-forward forecaster (modelo_pronostico.predecir_7dias)
    hist,           \* what the function derives from df before the loop
    fecha_base,     \* the date of the call (a day number)
    fPc,            \* "inactivo" | "bucle" | "retorno" | "lanzo"
    dia,            \* the loop variable
    ultimo,         \* the rolling state
    predicciones,   \* the list the function builds
    X,              \* the feature vector the last pass of the loop built
    \* ---- one call of the derived-quantity calculators (parametros.py)
    cIn,            \* the arguments
    cOut,           \* what each calculator returned
    cPc,            \* "inactivo" | "entrada" | "una" | "hecho"
    \* ---- current conditions and next hours (actualclima.py)
    kDf,            \* the series of the region
    kAhora,         \* now, an hour number
    kActual,        \* what obtener_clima_actual returned
    kHoras,         \* what obtener_clima_horario returned
    kPc,            \* "inactivo" | "cargado" | "hecho" | "lanzo"
    \* ---- the controller and its hourly monitor (main.py)
    nAhora,         \* the clock: whole hours since the model's first midnight
    nMain,          \* where the main thread stands
    nArranque,      \* the start-up scripts run so far, with their outcome
    nHilo,          \* where the monitor thread stands
    ultima_hora,    \* the monitor's last recorded hour
    hora_actual,    \* the hour the monitor's last poll observed
    nPasos,         \* the scripts the running cycle has run, with outcome
    nCiclos         \* the cycles triggered: how many, the last one's hour

repairVars == <<rIn, rOut, rPc>>
mergeVars  == <<mExistente, mData, mFinal, mPc>>
runVars    == <<hoy, archivo, runPc, tpc, tLocal, lock, futuro, status, recogidos>>

mainVars   == <<reloj, pronFile, carFile, aPc, aFlags, aTarea, aRecogidos,
                aResult, previo, actual>>

vars == <<rIn, rOut, rPc, mExistente, mData, mFinal, mPc,
          hoy, archivo, runPc, tpc, tLocal, lock, futuro, status, recogidos,
          reloj, pronFile, carFile, aPc, aFlags, aTarea, aRecogidos,
          aResult, previo, actual,
          hist, fecha_base, fPc, dia, ultimo, predicciones, X,
          cIn, cOut, cPc, kDf, kAhora, kActual, kHoras, kPc,
          nAhora, nMain, nArranque, nHilo, ultima_hora, hora_actual, nPasos,
          nCiclos>>

predVars   == <<hist, fecha_base, fPc, dia, ultimo, predicciones, X>>
calcVars   == <<cIn, cOut, cPc>>
climaVars  == <<kDf, kAhora, kActual, kHoras, kPc>>
monitorVars == <<nAhora, nMain, nArranque, nHilo, ultima_hora, hora_actual,
                 nPasos, nCiclos>>

---------------------------------------------------------------------------
(* Bounds of the model *)

\* the timestamps of the input rows of the repair engine are 0..MaxTs
MaxTs == 3
\* the input frame of the repair engine has 1..MaxLen rows
MaxLen == 3
\* the rows of one local day (24 in the program: the hour grid is scaled)
HorasDia == 1
\* the days of history a first download asks for (4 weeks in the program)
DiasHistoria == 0
\* the clock of the download runs shows the days 1..MaxDia
MaxDia == 2

\* the provinces of stations.csv (23 in the program)
Provincias == {"A", "B"}

---------------------------------------------------------------------------
(* Values *)

\* np.nan, the missing value of a numeric column
NaN == -999999
\* the missing value of the province column
ProvNaN == "nan"

IsNaN(x) == x = NaN

\* None
Ninguno == -888888
\* an argument that float() and int() reject (a str such as "abc")
Texto == -777777
\* the call did not return: it raised
Lanzado == -666666

Max2(a, b) == IF a >= b THEN a ELSE b
Min2(a, b) == IF a <= b THEN a ELSE b

\* round-half-even of x to a multiple of q (numpy's round on a value that
\* lies on the hundredths grid); NaN stays NaN
RoundTo(x, q) ==
    IF IsNaN(x) THEN NaN
    ELSE LET lo == (x \div q) * q
             r  == x - lo
         IN  IF 2 * r < q THEN lo
             ELSE IF 2 * r > q THEN lo + q
             ELSE IF (lo \div q) % 2 = 0 THEN lo ELSE lo + q

\* Series.round(1): to a tenth of the unit
Round1(x) == RoundTo(x, 10)
\* Series.round(0): to the unit
Round0(x) == RoundTo(x, 100)

\* comparisons of floats: every comparison with NaN is false
Gt(a, b) == ~IsNaN(a) /\ ~IsNaN(b) /\ a > b
Ge(a, b) == ~IsNaN(a) /\ ~IsNaN(b) /\ a >= b
Lt(a, b) == ~IsNaN(a) /\ ~IsNaN(b) /\ a < b
Le(a, b) == ~IsNaN(a) /\ ~IsNaN(b) /\ a <= b
Sub(a, b) == IF IsNaN(a) \/ IsNaN(b) THEN NaN ELSE a - b
AbsF(a) == IF IsNaN(a) THEN NaN ELSE IF a < 0 THEN -a ELSE a

---------------------------------------------------------------------------
(* parametros.py: the derived-quantity calculators the repair engine calls *)

\* calcular_coco reads its local `snow` (line 84) before anything binds it:
\* snow is neither a parameter nor assigned earlier, so the read raises
\* UnboundLocalError inside the try block
SnowIsBound == FALSE

\* the decision table of calcular_coco (lines 88-145), reached only when the
\* conversions of lines 79-84 do not raise; the defaults replace None
CocoTabla(temp0, dwpt0, rhum0, pres0, precip0, snow0) ==
    LET rhum   == IF rhum0 = Ninguno THEN 5000 ELSE rhum0
        temp   == IF temp0 = Ninguno THEN 1500 ELSE temp0
        dwpt   == IF dwpt0 = Ninguno THEN Sub(temp, 200) ELSE dwpt0
        pres   == IF pres0 = Ninguno THEN 101300 ELSE pres0
        precip == IF precip0 = Ninguno THEN 0 ELSE precip0
        snow   == IF snow0 = Ninguno THEN 0 ELSE snow0
        spread == AbsF(Sub(temp, dwpt))
    IN  IF Ge(snow, 500) THEN 23
        ELSE IF Ge(snow, 200) THEN 22
        ELSE IF Gt(snow, 0) THEN 21
        ELSE IF Ge(precip, 5000) THEN 27
        ELSE IF Ge(precip, 2000) /\ Lt(pres, 100500) THEN 27
        ELSE IF Ge(precip, 2000) THEN 26
        ELSE IF Ge(precip, 1500) THEN 9
        ELSE IF Ge(precip, 500) THEN 8
        ELSE IF Ge(precip, 250) THEN 7
        ELSE IF Ge(rhum, 9800) /\ Le(spread, 100) THEN 5
        ELSE IF Ge(rhum, 9500) /\ Le(spread, 200) THEN 4
        ELSE IF Ge(rhum, 8500) THEN 3
        ELSE IF Ge(rhum, 7000) THEN 2
        ELSE IF Lt(rhum, 5500) /\ Gt(spread, 600) THEN 1
        ELSE 2

\* codclimatico.weather_icons: the icon file of each sky code
weather_icons ==
    [c \in 1..28 |->
        CASE c = 1 -> "clear.svg"
          [] c = 2 -> "fair.svg"
          [] c = 3 -> "cloudy.svg"
          [] c = 4 -> "overcast.svg"
          [] c = 5 -> "fog.svg"
          [] c = 6 -> "freezing_fog.svg"
          [] c = 7 -> "light_rain.svg"
          [] c = 8 -> "rain.svg"
          [] c = 9 -> "heavy_rain.svg"
          [] c = 10 -> "freezing_rain.svg"
          [] c = 11 -> "heavy_sleet.svg"
          [] c = 12 -> "sleet.svg"
          [] c = 13 -> "heavy_sleet.svg"
          [] c = 14 -> "light_snowfall.svg"
          [] c = 15 -> "snowfall.svg"
          [] c = 16 -> "heavy_snowfall.svg"
          [] c = 17 -> "rain.svg"
          [] c = 18 -> "heavy_rain.svg"
          [] c = 19 -> "sleet.svg"
          [] c = 20 -> "heavy_sleet.svg"
          [] c = 21 -> "light_snowfall.svg"
          [] c = 22 -> "heavy_snowfall.svg"
          [] c = 23 -> "lightning.svg"
          [] c = 24 -> "hail.svg"
          [] c = 25 -> "thunderstorms.svg"
          [] c = 26 -> "heavy_thunderstorm.svg"
          [] c = 27 -> "storm.svg"
          [] c = 28 -> "wind.svg"]

\* the exception of line 84 leaving the function
calcular_coco_sin_except(temp, dwpt, rhum, pres, precip) == Lanzado

\* calcular_coco: the except branch of the try block returns 2
calcular_coco(temp, dwpt, rhum, pres, precip) ==
    IF ~SnowIsBound THEN 2
    ELSE CocoTabla(temp, dwpt, rhum, pres, precip, Ninguno)

\* calcular_visibilidad, in hundredths of a km. float() of None or of a str
\* and int() of NaN or of a str raise inside the try block: the except
\* branch returns 20.0; a None coco counts as 2
calcular_visibilidad(temp, rhum, dwpt, prcp, snow, wspd, coco) ==
    IF \/ {temp, rhum, dwpt, prcp, snow, wspd} \cap {Ninguno, Texto} # {}
       \/ coco \in {NaN, Texto}
    THEN 2000
    ELSE IF Gt(snow, 0) THEN
        RoundTo(Max2(100, 1500 - ((snow * 80) \div 100)), 100) \div 10
    ELSE IF Gt(prcp, 0) THEN
        RoundTo(Max2(300, 6000 - prcp * 10), 100) \div 10
    ELSE LET delta == Sub(temp, dwpt) IN
        IF Lt(delta, 50) THEN 20
        ELSE IF Lt(delta, 100) THEN 40
        ELSE IF Lt(delta, 200) THEN 80
        ELSE IF Lt(delta, 300) THEN 200
        ELSE LET v0 == 2200
                 v1 == IF Gt(rhum, 9500) THEN v0 - 1500
                       ELSE IF Gt(rhum, 8500) THEN v0 - 1000
                       ELSE IF Gt(rhum, 7500) THEN v0 - 500
                       ELSE IF Gt(rhum, 6500) THEN v0 - 300
                       ELSE v0
                 cc == IF coco = Ninguno THEN 2 ELSE coco
                 v2 == IF cc \in {4, 5} THEN 50 ELSE v1
                 v3 == IF Gt(wspd, 3500) THEN v2 - 500 ELSE v2
             IN  Round1(Max2(20, Min2(v3, 2200)))

---------------------------------------------------------------------------
(* parametros.py: the thermal-sensation calculators. Values agree with the
   floating-point formulas to within a tenth of a degree *)

\* 1000 * math.pow(w, 0.16) for the wind speeds of Vientos
Pow016(w) ==
    CASE w = 480 -> 1285
      [] w = 2000 -> 1615
      [] w = 4000 -> 1804
      [] OTHER -> 1000

\* 100 * 6.112 * math.exp(17.62 t / (243.12 + t)), the saturation vapour
\* pressure in hPa, for the temperatures of Temperaturas
SaturacionHpa(t) ==
    CASE t = -500 -> 422
      [] t = 1000 -> 1226
      [] t = 1010 -> 1234
      [] t = 2000 -> 2333
      [] t = 2700 -> 3557
      [] t = 3500 -> 5613
      [] OTHER -> 611

\* _vapour_pressure_hpa: 0.0 for a None argument and on any exception
vapour_pressure_hpa(temp_c, rh_pct) ==
    IF {temp_c, rh_pct} \cap {Ninguno, Texto} # {} THEN 0
    ELSE IF IsNaN(temp_c) \/ IsNaN(rh_pct) THEN NaN
    ELSE (rh_pct * SaturacionHpa(temp_c)) \div 10000

\* calcular_wind_chill: None when an argument is None or outside the range
\* of the formula; float() of a str raises, and no try surrounds it; a NaN
\* argument passes both comparisons of line 161 and makes the result NaN
calcular_wind_chill(temp_c, wspd_kmh) ==
    IF temp_c = Ninguno \/ wspd_kmh = Ninguno THEN Ninguno
    ELSE IF temp_c = Texto \/ wspd_kmh = Texto THEN Lanzado
    ELSE IF Gt(temp_c, 1000) \/ Lt(wspd_kmh, 480) THEN Ninguno
    ELSE IF IsNaN(temp_c) \/ IsNaN(wspd_kmh) THEN NaN
    ELSE LET pw == Pow016(wspd_kmh)
         IN  Round1(1312 + ((6215 * temp_c) \div 10000)
                         - ((1137 * pw) \div 1000)
                         + ((((3965 * temp_c) \div 1000) * pw) \div 10000))

\* calcular_heat_index: None when an argument is None or a str, or outside
\* the range of the regression; a NaN argument passes the comparisons of
\* line 184 and makes the result NaN
calcular_heat_index(temp_c, rh_pct) ==
    IF {temp_c, rh_pct} \cap {Ninguno, Texto} # {} THEN Ninguno
    ELSE IF Lt(temp_c, 2700) \/ Lt(rh_pct, 4000) THEN Ninguno
    ELSE IF IsNaN(temp_c) \/ IsNaN(rh_pct) THEN NaN
    ELSE LET t_f  == ((temp_c * 9) \div 5) + 3200
             rh   == rh_pct
             t2   == (t_f * t_f) \div 1000
             rh2  == (rh * rh) \div 1000
             hi_f == -4238 + ((20490 * t_f) \div 10000)
                     + ((101433 * rh) \div 10000)
                     - ((((t_f * rh) \div 10000) * 22476) \div 1000)
                     - ((t2 * 6838) \div 100000)
                     - ((rh2 * 5482) \div 10000)
                     + ((((t2 * rh) \div 10000) * 12287) \div 10000)
                     + ((((rh2 * t_f) \div 10000) * 8528) \div 10000)
                     - ((((t2 * (rh2 \div 100)) \div 100) * 199) \div 10000)
             adj  == IF rh > 8500 /\ t_f >= 8000 /\ t_f <= 8700
                     THEN ((rh - 8500) * (8700 - t_f)) \div 5000
                     ELSE 0
         IN  Round1(((hi_f + adj - 3200) * 5) \div 9)

\* calcular_apparent_temperature: None when an argument is None or a str
calcular_apparent_temperature(temp_c, rh_pct, wspd_kmh) ==
    IF {temp_c, rh_pct, wspd_kmh} \cap {Ninguno, Texto} # {} THEN Ninguno
    ELSE IF IsNaN(temp_c) \/ IsNaN(rh_pct) \/ IsNaN(wspd_kmh) THEN NaN
    ELSE LET e == vapour_pressure_hpa(temp_c, rh_pct)
         IN  Round1(temp_c + ((33 * e) \div 100) - ((70 * wspd_kmh) \div 360) - 400)

\* calcular_sensacion_termica: the first of wind chill, heat index and
\* apparent temperature that is not None, then the temperature; an
\* exception (the wind chill of a str, float() of a str) ends in return None
calcular_sensacion_termica(temp, rhum, wspd) ==
    LET wc == calcular_wind_chill(temp, wspd)
        hi == calcular_heat_index(temp, rhum)
        at == calcular_apparent_temperature(temp, rhum, wspd)
    IN  IF wc = Lanzado THEN Ninguno
        ELSE IF wc # Ninguno THEN Round1(wc)
        ELSE IF hi # Ninguno THEN Round1(hi)
        ELSE IF at # Ninguno THEN Round1(at)
        ELSE IF temp # Ninguno
             THEN (IF temp = Texto THEN Ninguno ELSE Round1(temp))
        ELSE Ninguno

---------------------------------------------------------------------------
(* data.py: rellenar_horas_perdidas *)

\* the numeric columns of a frame that the repair engine touches
zero_fields   == <<"prcp", "snow", "tsun">>
interp_fields == <<"temp", "dwpt", "rhum", "wspd", "pres">>

SeqToSet(s) == {s[i] : i \in DOMAIN s}

\* the row reindex() introduces for an hour the input does not hold
FilaVacia(h) ==
    [fecha_hora |-> h, temp |-> NaN, dwpt |-> NaN, rhum |-> NaN, wspd |-> NaN,
     pres |-> NaN, prcp |-> NaN, snow |-> NaN, tsun |-> NaN, coco |-> NaN,
     visibilidad |-> NaN, province |-> ProvNaN]

\* df.sort_values("fecha_hora"): position i of the sorted frame. Rows are
\* ranked by (fecha_hora, original position)
Rank(df, i) ==
    Cardinality({j \in DOMAIN df :
        \/ df[j].fecha_hora < df[i].fecha_hora
        \/ (df[j].fecha_hora = df[i].fecha_hora /\ j < i)}) + 1

SortValues(df) ==
    [k \in DOMAIN df |-> df[CHOOSE i \in DOMAIN df : Rank(df, i) = k]]

MinFecha(df) == CHOOSE t \in {df[i].fecha_hora : i \in DOMAIN df} :
                    \A i \in DOMAIN df : t <= df[i].fecha_hora
MaxFecha(df) == CHOOSE t \in {df[i].fecha_hora : i \in DOMAIN df} :
                    \A i \in DOMAIN df : t >= df[i].fecha_hora

\* an index with a repeated label: reindex() raises ValueError on it
HasDuplicates(df) ==
    \E i, j \in DOMAIN df : i # j /\ df[i].fecha_hora = df[j].fecha_hora

\* df.set_index("fecha_hora").reindex(all_hours), for an index without repeats
Reindex(df, t0, tN) ==
    [k \in 1..(tN - t0 + 1) |->
        LET h == t0 + k - 1 IN
        IF \E i \in DOMAIN df : df[i].fecha_hora = h
        THEN df[CHOOSE i \in DOMAIN df : df[i].fecha_hora = h]
        ELSE FilaVacia(h)]

\* Series.interpolate(limit_direction="both"): linear between the nearest
\* known neighbours by position, the nearest known value before the first
\* and after the last known one, NaN when the column holds no value
Interpolate(col) ==
    [i \in DOMAIN col |->
        IF ~IsNaN(col[i]) THEN col[i]
        ELSE LET prev == {j \in DOMAIN col : j < i /\ ~IsNaN(col[j])}
                 next == {j \in DOMAIN col : j > i /\ ~IsNaN(col[j])}
                 p == CHOOSE j \in prev : \A x \in prev : x <= j
                 n == CHOOSE j \in next : \A x \in next : x >= j
             IN  IF prev # {} /\ next # {}
                 THEN col[p] + (((col[n] - col[p]) * (i - p)) \div (n - p))
                 ELSE IF prev # {} THEN col[p]
                 ELSE IF next # {} THEN col[n]
                 ELSE NaN]

\* the accumulative column treated as a continuous one (interpolated)
FillnaCero_interpolado(col) == Interpolate(col)

\* Series.fillna(0.0), applied to each of zero_fields
FillnaCero(col) ==
    [i \in DOMAIN col |-> IF IsNaN(col[i]) THEN 0 ELSE col[i]]

\* Series.ffill().bfill() of the province column
FfillBfill(col) ==
    [i \in DOMAIN col |->
        IF col[i] # ProvNaN THEN col[i]
        ELSE LET prev == {j \in DOMAIN col : j < i /\ col[j] # ProvNaN}
                 next == {j \in DOMAIN col : j > i /\ col[j] # ProvNaN}
             IN  IF prev # {} THEN col[CHOOSE j \in prev : \A x \in prev : x <= j]
                 ELSE IF next # {} THEN col[CHOOSE j \in next : \A x \in next : x >= j]
                 ELSE ProvNaN]

Col(df, f) == [i \in DOMAIN df |-> df[i][f]]

\* asegurar_coco raises: int(c) of a code that is text
asegurar_coco_lanza(row) == row.coco = Texto

\* asegurar_coco: the row's own code, or one from calcular_coco when it is
\* missing or the sentinel -1
asegurar_coco(row) ==
    IF IsNaN(row.coco) \/ row.coco = -1
    THEN calcular_coco(row.temp, row.dwpt, row.rhum, row.pres, row.prcp)
    ELSE row.coco

\* rellenar_horas_perdidas: [raised |-> TRUE] when a statement of the
\* function raises (the caller keeps the frame it passed), else the frame
\* the function returns. df.apply(asegurar_coco, axis=1) (line 138) has no
\* try: the exception of one row is the exception of the function
rellenar_horas_perdidas(df) ==
    IF \/ Len(df) = 0
       \/ HasDuplicates(df)
       \/ \E i \in DOMAIN df : asegurar_coco_lanza(df[i])
    THEN [raised |-> TRUE, df |-> df]
    ELSE
    LET s   == SortValues(df)
        re  == Reindex(s, MinFecha(s), MaxFecha(s))
        prcp == FillnaCero(Col(re, "prcp"))
        snow == FillnaCero(Col(re, "snow"))
        tsun == FillnaCero(Col(re, "tsun"))
        temp == Interpolate(Col(re, "temp"))
        dwpt == Interpolate(Col(re, "dwpt"))
        rhum == Interpolate(Col(re, "rhum"))
        wspd == Interpolate(Col(re, "wspd"))
        pres == Interpolate(Col(re, "pres"))
        prov == FfillBfill(Col(re, "province"))
        filled == [i \in DOMAIN re |->
            [fecha_hora |-> re[i].fecha_hora, temp |-> temp[i], dwpt |-> dwpt[i],
             rhum |-> rhum[i], wspd |-> wspd[i], pres |-> pres[i],
             prcp |-> prcp[i], snow |-> snow[i], tsun |-> tsun[i],
             coco |-> re[i].coco, visibilidad |-> re[i].visibilidad,
             province |-> prov[i]]]
        coco == [i \in DOMAIN re |-> asegurar_coco(filled[i])]
        vis  == [i \in DOMAIN re |->
            calcular_visibilidad(temp[i], rhum[i], dwpt[i], prcp[i], snow[i],
                                 wspd[i], coco[i])]
    IN  [raised |-> FALSE,
         df |-> [i \in DOMAIN re |->
            [fecha_hora |-> re[i].fecha_hora,
             temp |-> Round1(temp[i]), dwpt |-> Round1(dwpt[i]),
             rhum |-> Round0(rhum[i]), wspd |-> Round1(wspd[i]),
             pres |-> Round1(pres[i]), prcp |-> Round1(prcp[i]),
             snow |-> Round1(snow[i]), tsun |-> tsun[i],
             coco |-> coco[i], visibilidad |-> Round1(vis[i]),
             province |-> prov[i]]]]

---------------------------------------------------------------------------
(* data.py: the merge block of procesar_provincia (lines 350-371) *)

\* invalido(df): df.empty or df.dropna(how="all").empty
FilaTodaNaN(r) ==
    /\ IsNaN(r.fecha_hora) /\ IsNaN(r.temp) /\ IsNaN(r.dwpt) /\ IsNaN(r.rhum)
    /\ IsNaN(r.wspd) /\ IsNaN(r.pres) /\ IsNaN(r.prcp) /\ IsNaN(r.snow)
    /\ IsNaN(r.tsun) /\ IsNaN(r.coco) /\ IsNaN(r.visibilidad)
    /\ r.province = ProvNaN

invalido(df) == Len(df) = 0 \/ \A i \in DOMAIN df : FilaTodaNaN(df[i])

\* the rows of df at the positions of `keep`, in their order
SubFrame(df, keep) ==
    [k \in 1..Cardinality(keep) |->
        df[CHOOSE i \in keep : Cardinality({j \in keep : j <= i}) = k]]

\* drop_duplicates(subset="fecha_hora", keep="first")
DropDuplicates_first(df) ==
    SubFrame(df, {i \in DOMAIN df :
        ~\E j \in DOMAIN df : j < i /\ df[j].fecha_hora = df[i].fecha_hora})

\* drop_duplicates(subset="fecha_hora", keep="last")
DropDuplicates(df) ==
    SubFrame(df, {i \in DOMAIN df :
        ~\E j \in DOMAIN df : j > i /\ df[j].fecha_hora = df[i].fecha_hora})

\* df_final of procesar_provincia
Combinar(df_existente, data) ==
    IF invalido(df_existente) /\ invalido(data) THEN <<>>
    ELSE IF invalido(df_existente) THEN data
    ELSE IF invalido(data) THEN df_existente
    ELSE SortValues(DropDuplicates(df_existente \o data))

---------------------------------------------------------------------------
(* Inputs *)

\* one row as the provider reports it for hour ts: the sensor fields are
\* present or missing together, acc names the accumulative fields reported
Lectura(ts, sensor, acc) ==
    [fecha_hora |-> ts,
     temp |-> IF sensor THEN 1000 + 370 * ts ELSE NaN,
     dwpt |-> IF sensor THEN 550 + 370 * ts ELSE NaN,
     rhum |-> IF sensor THEN 6000 + 700 * ts ELSE NaN,
     wspd |-> IF sensor THEN 1200 ELSE NaN,
     pres |-> IF sensor THEN 101300 - 150 * ts ELSE NaN,
     prcp |-> IF "prcp" \in acc THEN 250 ELSE NaN,
     snow |-> IF "snow" \in acc THEN 100 ELSE NaN,
     tsun |-> IF "tsun" \in acc THEN 3000 ELSE NaN,
     coco |-> IF sensor THEN 3 ELSE NaN,
     visibilidad |-> NaN,
     province |-> "P"]

\* what a provider row may hold: <<sensor fields present, accumulative
\* fields present>>: a full row, a row without accumulative fields, a row
\* with precipitation only, a row with no value at all
Variantes == {<<TRUE, {"prcp", "snow", "tsun"}>>, <<TRUE, {}>>,
              <<FALSE, {"prcp"}>>, <<FALSE, {}>>}

\* a full row whose sky code is text that int() rejects
LecturaCocoTexto ==
    [Lectura(1, TRUE, {"prcp", "snow", "tsun"}) EXCEPT !.coco = Texto]

Lecturas ==
    {Lectura(ts, v[1], v[2]) : ts \in 0..MaxTs, v \in Variantes}
        \cup {LecturaCocoTexto}

\* the non-empty frames of at most MaxLen rows, in any order, with or
\* without repeated timestamps
Frames(Rows, n) == UNION {[1..k -> Rows] : k \in 1..n}

\* a row of a persisted series for hour ts (an older observation)
Persistida(ts) ==
    [Lectura(ts, TRUE, {"prcp", "snow", "tsun"}) EXCEPT
        !.temp = 500 + 10 * ts, !.visibilidad = 2000]

\* what the provider returns for a set of hours: one row per hour, in order
Descarga(horas) ==
    SortValues(SubFrame([i \in 1..(MaxTs + 1) |-> Lectura(i - 1, TRUE, {"prcp"})],
                        {h + 1 : h \in horas}))

---------------------------------------------------------------------------
(* The parts of the state a specification leaves alone *)

RepairIdle == rIn = <<>> /\ rOut = [raised |-> FALSE, df |-> <<>>] /\ rPc = "inactivo"
MergeIdle  == mExistente = <<>> /\ mData = <<>> /\ mFinal = <<>> /\ mPc = "inactivo"

\* a region's CSV: absent, or present and unreadable (read_csv raises on
\* it: no text that parses, or no fecha_hora column to parse the dates of)
SinCsv == [existe |-> FALSE, legible |-> FALSE, df |-> <<>>]
CsvIlegible == [existe |-> TRUE, legible |-> FALSE, df |-> <<>>]
CsvIniciales == {SinCsv, CsvIlegible}

SinArchivo == [existe |-> FALSE, legible |-> FALSE, fecha_generacion |-> 0,
               provincias |-> <<>>]
SinCorrida == [valida |-> FALSE, dia_inicio |-> 0, dia_fin |-> 0,
               escribio_pron |-> FALSE, pron |-> SinArchivo]
SinTarea == [lista |-> FALSE, lanza |-> FALSE, pron |-> 0, car |-> 0, ajuste |-> "no"]

SinHistoria == [obs_temp |-> 0, obs_dwpt |-> 0, tmin |-> 0, tmax |-> 0,
                q10 |-> 0, q90 |-> 0, meses |-> {}, global_std |-> 0,
                rhum |-> 0, pres |-> 0, wspd |-> 0]
SinUltimo == [temp |-> 0, dwpt |-> 0, rhum |-> 0, pres |-> 0, prcp |-> 0,
              wspd |-> 0]

\* the names of the features of the model: the six weather columns of the
\* rolling state and, of the lag and rolling-mean columns entrenar_modelo
\* adds to its own copy of the frame, those of lag 1 and of the 24 h mean
features ==
    {"temp", "dwpt", "rhum", "pres", "prcp", "wspd",
     "temp_lag1", "dwpt_lag1", "rhum_lag1", "pres_lag1",
     "temp_roll24", "dwpt_roll24", "rhum_roll24", "pres_roll24"}

SinX == [f \in features |-> 0]

PredIdle ==
    /\ hist = SinHistoria
    /\ fecha_base = 0
    /\ fPc = "inactivo"
    /\ dia = 0
    /\ ultimo = SinUltimo
    /\ predicciones = <<>>
    /\ X = SinX

SinArgumentos == [temp |-> 0, rhum |-> 0, wspd |-> 0, dwpt |-> 0, pres |-> 0,
                  prcp |-> 0, snow |-> 0, coco |-> 0]
SinSalida == [wc |-> 0, hi |-> 0, at |-> 0, sens |-> 0, coco |-> 0,
              coco2 |-> 0, vis |-> 0]

CalcIdle ==
    /\ cIn = SinArgumentos
    /\ cOut = SinSalida
    /\ cPc = "inactivo"

SinFila == [fecha_hora |-> 0, temperatura |-> 0, visibilidad |-> 0, coco |-> 0,
            icono |-> ""]

ClimaIdle ==
    /\ kDf = <<>>
    /\ kAhora = 0
    /\ kActual = SinFila
    /\ kHoras = <<>>
    /\ kPc = "inactivo"

MonitorIdle ==
    /\ nAhora = 0
    /\ nMain = "inactivo"
    /\ nArranque = <<>>
    /\ nHilo = "no_iniciado"
    /\ ultima_hora = Ninguno
    /\ hora_actual = Ninguno
    /\ nPasos = <<>>
    /\ nCiclos = [hechos |-> 0, disparo |-> Ninguno, desde |-> 0]

MainIdle ==
    /\ reloj = 1
    /\ pronFile = SinArchivo /\ carFile = SinArchivo
    /\ aPc = "inactivo"
    /\ aFlags = [pron |-> FALSE, car |-> FALSE]
    /\ aTarea = [p \in Provincias |-> SinTarea]
    /\ aRecogidos = {}
    /\ aResult = [pron |-> <<>>, car |-> <<>>]
    /\ previo = SinCorrida
    /\ actual = [dia_inicio |-> 0, escribio_pron |-> FALSE]

---------------------------------------------------------------------------
(* data.py: the download run *)

\* ThreadPoolExecutor(max_workers=5)
max_workers == 5

\* tz_arg, America/Argentina/Buenos_Aires: local time is UTC - 3 h
TzOffset == 3
AUtc(t)   == t + TzOffset
ALocal(t) == t - TzOffset

Estados == {"actualizada", "omitida", "vacia", "error"}

\* horas_extra=48: two local days
horas_extra == 2 * HorasDia

\* obtener_ultima_fecha: the greatest fecha_hora of the frame, NaN (NaT) for
\* a frame without rows
obtener_ultima_fecha(df) == IF Len(df) = 0 THEN NaN ELSE MaxFecha(df)

\* rango_descarga reads the CSV itself, outside any try (line 191): on a
\* file that exists and that read_csv cannot read, it raises
rango_descarga_lanza(f) == f.existe /\ ~f.legible

\* rango_descarga: <<start_utc, end_utc>>, or <<NaN, NaN>> (None, None)
\* when the series already reaches the limit
rango_descarga(f, hoy_dia) ==
    LET fin_deseado == hoy_dia * HorasDia + horas_extra
        desde_cero  == (hoy_dia - DiasHistoria) * HorasDia
        ultima      == IF f.existe THEN obtener_ultima_fecha(f.df) ELSE NaN
        inicio      == IF f.existe /\ ~IsNaN(ultima) THEN ultima + 1
                       ELSE desde_cero
    IN  IF inicio >= fin_deseado THEN <<NaN, NaN>>
        ELSE <<AUtc(inicio), AUtc(fin_deseado)>>

\* what Hourly(estacion, start_utc, end_utc).fetch() may return: the hours
\* (UTC) it holds rows for. The station of A reports nothing, the whole
\* range, or the range without one of its hours; the station of B all of
\* the range or nothing
Respuestas(p, start_utc, end_utc) ==
    LET rango == start_utc..end_utc
    IN  IF p = "A"
        THEN {{}, rango} \cup {rango \ {h} : h \in rango}
        ELSE {{}, rango}

\* the hours of a set in increasing order (the index fetch() returns)
RECURSIVE EnOrden(_)
EnOrden(horas) ==
    IF horas = {} THEN <<>>
    ELSE LET h == CHOOSE x \in horas : \A y \in horas : x <= y
         IN  <<h>> \o EnOrden(horas \ {h})

\* the frame fetch() returns for the hours `horas`, after reset_index, the
\* rename of time to fecha_hora, the conversion of fecha_hora from UTC to
\* naive local time and the columns of `cols` it lacks (lines 290-315)
Normalizar(provincia, horas) ==
    LET hrs == EnOrden(horas)
    IN  [i \in 1..Len(hrs) |->
            [Lectura(ALocal(hrs[i]), TRUE, {"prcp"}) EXCEPT !.province = provincia]]

\* lines 317-321: the repair, whose failure is swallowed
Reparado(data) == rellenar_horas_perdidas(data).df

\* status[estado].append(provincia) once per province, and nothing else
Registrar_solo_exitos(st, provincia, estado) ==
    IF estado = "error" THEN st
    ELSE [st EXCEPT ![estado] = Append(@, provincia)]

\* status[estado].append(provincia)
Registrar(st, provincia, estado) ==
    [st EXCEPT ![estado] = Append(@, provincia)]

LocalVacio == [start_utc |-> NaN, end_utc |-> NaN, df_existente |-> <<>>,
               csv_vacio |-> TRUE, data |-> <<>>]
SinResultado == [listo |-> FALSE, estado |-> "nada"]
Resultado(e) == [listo |-> TRUE, estado |-> e]

RepairMergeIdle == RepairIdle /\ MergeIdle

Init ==
    /\ hoy = 1
    /\ archivo \in [Provincias -> CsvIniciales]
    /\ runPc = "inactivo"
    /\ tpc = [p \in Provincias |-> "inactiva"]
    /\ tLocal = [p \in Provincias |-> LocalVacio]
    /\ lock = "libre"
    /\ futuro = [p \in Provincias |-> SinResultado]
    /\ status = [e \in Estados |-> <<>>]
    /\ recogidos = {}
    /\ RepairMergeIdle /\ MainIdle /\ PredIdle /\ CalcIdle /\ ClimaIdle
    /\ MonitorIdle

\* the clock reaches the next day (between two runs)
Tick ==
    /\ runPc \in {"inactivo", "terminado"}
    /\ hoy < MaxDia
    /\ hoy' = hoy + 1
    /\ UNCHANGED <<archivo, runPc, tpc, tLocal, lock, futuro, status, recogidos>>
    /\ UNCHANGED <<repairVars, mergeVars, mainVars, predVars, calcVars, climaVars, monitorVars>>

\* the script starts: status is empty and one task per province is submitted
IniciarRun ==
    /\ runPc \in {"inactivo", "terminado"}
    /\ runPc' = "corriendo"
    /\ tpc' = [p \in Provincias |-> "pendiente"]
    /\ tLocal' = [p \in Provincias |-> LocalVacio]
    /\ futuro' = [p \in Provincias |-> SinResultado]
    /\ status' = [e \in Estados |-> <<>>]
    /\ recogidos' = {}
    /\ UNCHANGED <<hoy, archivo, lock, repairVars, mergeVars, mainVars, predVars, calcVars, climaVars, monitorVars>>

Retornar(p, estado) ==
    /\ tpc' = [tpc EXCEPT ![p] = "retornada"]
    /\ tLocal' = [tLocal EXCEPT ![p] = LocalVacio]
    /\ futuro' = [futuro EXCEPT ![p] = Resultado(estado)]

\* a free worker takes the task of p and runs it up to the fetch: it reads
\* the persisted series (an unreadable one counts as empty, lines 246-258),
\* computes the range, where the exception of rango_descarga reaches the
\* outer except (lines 380-382), and returns when nothing is to be
\* downloaded (lines 245-274)
LeerYRango(p) ==
    /\ runPc = "corriendo"
    /\ tpc[p] = "pendiente"
    /\ Cardinality({q \in Provincias :
           tpc[q] \in {"espera_lock", "fetch", "procesa"}}) < max_workers
    /\ LET df_existente == IF archivo[p].existe /\ archivo[p].legible
                           THEN archivo[p].df ELSE <<>>
           csv_vacio    == Len(df_existente) = 0
           rango        == rango_descarga(archivo[p], hoy)
       IN  IF rango_descarga_lanza(archivo[p])
           THEN Retornar(p, "error")
           ELSE IF IsNaN(rango[1])
           THEN Retornar(p, IF csv_vacio THEN "vacia" ELSE "omitida")
           ELSE /\ tpc' = [tpc EXCEPT ![p] = "espera_lock"]
                /\ tLocal' = [tLocal EXCEPT ![p] =
                       [start_utc |-> rango[1], end_utc |-> rango[2],
                        df_existente |-> df_existente,
                        csv_vacio |-> csv_vacio, data |-> <<>>]]
                /\ UNCHANGED futuro
    /\ UNCHANGED <<hoy, archivo, runPc, lock, status, recogidos>>
    /\ UNCHANGED <<repairVars, mergeVars, mainVars, predVars, calcVars, climaVars, monitorVars>>

\* entering the fetch without waiting for the lock
AdquirirLock_sin_espera(p) ==
    /\ tpc[p] = "espera_lock"
    /\ lock' = p
    /\ tpc' = [tpc EXCEPT ![p] = "fetch"]
    /\ UNCHANGED <<hoy, archivo, runPc, tLocal, futuro, status, recogidos>>
    /\ UNCHANGED <<repairVars, mergeVars, mainVars, predVars, calcVars, climaVars, monitorVars>>

\* with meteostat_lock: the task of p enters the block
AdquirirLock(p) ==
    /\ tpc[p] = "espera_lock"
    /\ lock = "libre"
    /\ lock' = p
    /\ tpc' = [tpc EXCEPT ![p] = "fetch"]
    /\ UNCHANGED <<hoy, archivo, runPc, tLocal, futuro, status, recogidos>>
    /\ UNCHANGED <<repairVars, mergeVars, mainVars, predVars, calcVars, climaVars, monitorVars>>

\* a fetch failure that returns with the lock still held
FetchFalla_sin_liberar(p) ==
    /\ tpc[p] = "fetch"
    /\ lock = p
    /\ Retornar(p, "error")
    /\ UNCHANGED <<hoy, archivo, runPc, lock, status, recogidos>>
    /\ UNCHANGED <<repairVars, mergeVars, mainVars, predVars, calcVars, climaVars, monitorVars>>

\* a fetch failure that also removes the persisted series
FetchFalla_borra(p) ==
    /\ tpc[p] = "fetch"
    /\ lock = p
    /\ lock' = "libre"
    /\ archivo' = [archivo EXCEPT ![p] = SinCsv]
    /\ Retornar(p, "error")
    /\ UNCHANGED <<hoy, runPc, status, recogidos>>
    /\ UNCHANGED <<repairVars, mergeVars, mainVars, predVars, calcVars, climaVars, monitorVars>>

\* the fetch raises: the task returns error from inside the block, which
\* releases the lock (lines 279-280)
FetchFalla(p) ==
    /\ tpc[p] = "fetch"
    /\ lock = p
    /\ lock' = "libre"
    /\ Retornar(p, "error")
    /\ UNCHANGED <<hoy, archivo, runPc, status, recogidos>>
    /\ UNCHANGED <<repairVars, mergeVars, mainVars, predVars, calcVars, climaVars, monitorVars>>

\* the fetch returns and the block is left; an empty answer ends the task
\* (lines 278-286)
FetchRetorna(p) ==
    /\ tpc[p] = "fetch"
    /\ lock = p
    /\ lock' = "libre"
    /\ \E horas \in Respuestas(p, tLocal[p].start_utc, tLocal[p].end_utc) :
          IF horas = {}
          THEN Retornar(p, IF tLocal[p].csv_vacio THEN "vacia" ELSE "omitida")
          ELSE /\ tpc' = [tpc EXCEPT ![p] = "procesa"]
               /\ tLocal' = [tLocal EXCEPT ![p].data = Normalizar(p, horas)]
               /\ UNCHANGED futuro
    /\ UNCHANGED <<hoy, archivo, runPc, status, recogidos>>
    /\ UNCHANGED <<repairVars, mergeVars, mainVars, predVars, calcVars, climaVars, monitorVars>>

\* lines 310-378: the repair, the merge with the persisted series and the
\* write of the result
ProcesarYGuardar(p) ==
    /\ tpc[p] = "procesa"
    /\ LET data     == Reparado(tLocal[p].data)
           df_final == Combinar(tLocal[p].df_existente, data)
       IN  archivo' = [archivo EXCEPT ![p] =
               [existe |-> TRUE, legible |-> TRUE, df |-> df_final]]
    /\ Retornar(p, "actualizada")
    /\ UNCHANGED <<hoy, runPc, lock, status, recogidos>>
    /\ UNCHANGED <<repairVars, mergeVars, mainVars, predVars, calcVars, climaVars, monitorVars>>

\* lines 373-376: to_csv raises (the file cannot be opened, or the write
\* stops midway and leaves text read_csv cannot read); the task returns error
GuardarFalla(p) ==
    /\ tpc[p] = "procesa"
    /\ \E f \in {archivo[p], CsvIlegible} :
          archivo' = [archivo EXCEPT ![p] = f]
    /\ Retornar(p, "error")
    /\ UNCHANGED <<hoy, runPc, lock, status, recogidos>>
    /\ UNCHANGED <<repairVars, mergeVars, mainVars, predVars, calcVars, climaVars, monitorVars>>

\* for fut in as_completed(futures): the main thread takes one finished
\* future and records its province under its estado (lines 394-396)
Recoger(p) ==
    /\ runPc = "corriendo"
    /\ futuro[p].listo
    /\ p \notin recogidos
    /\ status' = Registrar(status, p, futuro[p].estado)
    /\ recogidos' = recogidos \cup {p}
    /\ UNCHANGED <<hoy, archivo, runPc, tpc, tLocal, lock, futuro>>
    /\ UNCHANGED <<repairVars, mergeVars, mainVars, predVars, calcVars, climaVars, monitorVars>>

\* every future was yielded: the report is printed (lines 400-404)
Informe ==
    /\ runPc = "corriendo"
    /\ recogidos = Provincias
    /\ runPc' = "terminado"
    /\ UNCHANGED <<hoy, archivo, tpc, tLocal, lock, futuro, status, recogidos>>
    /\ UNCHANGED <<repairVars, mergeVars, mainVars, predVars, calcVars, climaVars, monitorVars>>

Next ==
    \/ Tick
    \/ IniciarRun
    \/ \E p \in Provincias : LeerYRango(p)
    \/ \E p \in Provincias : AdquirirLock(p)
    \/ \E p \in Provincias : FetchFalla(p)
    \/ \E p \in Provincias : FetchRetorna(p)
    \/ \E p \in Provincias : ProcesarYGuardar(p)
    \/ \E p \in Provincias : GuardarFalla(p)
    \/ \E p \in Provincias : Recoger(p)
    \/ Informe

Spec == Init /\ [][Next]_vars

\* the scheduling of a run: a worker that can take a step takes it (the
\* pool has more workers than tasks and the interpreter runs every thread),
\* a fetch that was called returns or raises, and the main thread, blocked
\* in as_completed, goes on when a future is done
Equidad ==
    /\ \A p \in Provincias :
          /\ WF_vars(LeerYRango(p))
          /\ WF_vars(AdquirirLock(p))
          /\ WF_vars(FetchFalla(p) \/ FetchRetorna(p))
          /\ WF_vars(GuardarFalla(p) \/ ProcesarYGuardar(p))
          /\ WF_vars(Recoger(p))
    /\ WF_vars(Informe)

SpecVivo == Spec /\ Equidad

RunIdle ==
    /\ hoy = 1
    /\ archivo = [p \in Provincias |-> SinCsv]
    /\ runPc = "inactivo"
    /\ tpc = [p \in Provincias |-> "inactiva"]
    /\ tLocal = [p \in Provincias |-> LocalVacio]
    /\ lock = "libre"
    /\ futuro = [p \in Provincias |-> SinResultado]
    /\ status = [e \in Estados |-> <<>>]
    /\ recogidos = {}


---------------------------------------------------------------------------
(* actualizarpronostico.py: the forecast run *)

\* the stamp check with the time of day kept in the stamp it compares
archivo_del_dia_con_hora(f, hoy_dia) == FALSE

\* archivo_del_dia: the file exists, parses, is stamped, and its stamp is
\* today's date (dates are day numbers: strftime("%Y-%m-%d") is one to one)
archivo_del_dia(f, hoy_dia) ==
    /\ f.existe
    /\ f.legible
    /\ f.fecha_generacion # 0
    /\ f.fecha_generacion = hoy_dia

\* what the two JSON files may hold before the first run: nothing, text that
\* does not parse, the output of a run of an earlier day, or the output of
\* a run made earlier on the first day (main.py runs the script at start-up
\* and again every hour)
ArchivosIniciales ==
    {SinArchivo,
     [existe |-> TRUE, legible |-> FALSE, fecha_generacion |-> 0, provincias |-> <<>>],
     [existe |-> TRUE, legible |-> TRUE, fecha_generacion |-> 0, provincias |-> <<>>],
     [existe |-> TRUE, legible |-> TRUE, fecha_generacion |-> 1, provincias |-> <<>>]}

\* the draws of a province's forecast: two runs need not produce the same
Sorteos == {1, 2}
\* the draws of a province's carousel
SorteosCarousel == {1}

\* what procesar_provincia(archivo, actualizar_pronostico, actualizar_carousel)
\* may do: return None, None before the fit (no CSV, empty CSV); raise
\* before the fit (read_csv or the preprocessing raises); raise in the fit
\* (entrenar_modelo has no try and line 113 is in none: the exception leaves
\* the task); or, the fit done, return each of the two parts it was asked
\* for, or None where its try block failed. ajuste records how the fit went
Tareas(flags) ==
    {[lista |-> TRUE, lanza |-> FALSE, pron |-> 0, car |-> 0, ajuste |-> "no"],
     [lista |-> TRUE, lanza |-> TRUE, pron |-> 0, car |-> 0, ajuste |-> "no"],
     [lista |-> TRUE, lanza |-> TRUE, pron |-> 0, car |-> 0, ajuste |-> "falla"]}
    \cup {[lista |-> TRUE, lanza |-> FALSE, pron |-> x, car |-> y, ajuste |-> "bien"] :
            x \in (IF flags.pron THEN Sorteos \cup {0} ELSE {0}),
            y \in (IF flags.car THEN SorteosCarousel \cup {0} ELSE {0})}

InitMain ==
    /\ reloj = 1
    /\ pronFile \in ArchivosIniciales
    /\ carFile \in ArchivosIniciales
    /\ aPc = "inactivo"
    /\ aFlags = [pron |-> FALSE, car |-> FALSE]
    /\ aTarea = [p \in Provincias |-> SinTarea]
    /\ aRecogidos = {}
    /\ aResult = [pron |-> <<>>, car |-> <<>>]
    /\ previo = SinCorrida
    /\ actual = [dia_inicio |-> 0, escribio_pron |-> FALSE]
    /\ RepairMergeIdle /\ RunIdle /\ PredIdle /\ CalcIdle /\ ClimaIdle
    /\ MonitorIdle

MainFrame == UNCHANGED <<repairVars, mergeVars, runVars, predVars, calcVars, climaVars, monitorVars>>

\* midnight passes
TickReloj ==
    /\ reloj < MaxDia
    /\ reloj' = reloj + 1
    /\ UNCHANGED <<pronFile, carFile, aPc, aFlags, aTarea, aRecogidos, aResult,
                   previo, actual>>
    /\ MainFrame

\* the run ends: it becomes the run before the next one
Cerrar ==
    /\ previo' = [valida |-> TRUE, dia_inicio |-> actual.dia_inicio,
                  dia_fin |-> reloj, escribio_pron |-> actual.escribio_pron,
                  pron |-> pronFile]

\* main() starts: both stamps are checked; with both files of today it
\* returns at once, else one task per CSV is submitted (lines 146-161)
Revisar ==
    /\ aPc = "inactivo"
    /\ LET flags == [pron |-> ~archivo_del_dia(pronFile, reloj),
                     car  |-> ~archivo_del_dia(carFile, reloj)]
       IN  /\ aFlags' = flags
           /\ actual' = [dia_inicio |-> reloj, escribio_pron |-> FALSE]
           /\ aPc' = IF ~flags.pron /\ ~flags.car THEN "fin" ELSE "procesando"
    /\ aTarea' = [p \in Provincias |-> SinTarea]
    /\ aRecogidos' = {}
    /\ aResult' = [pron |-> <<>>, car |-> <<>>]
    /\ UNCHANGED <<reloj, pronFile, carFile, previo>>
    /\ MainFrame

\* the task of province p ends
TareaTermina(p) ==
    /\ aPc \in {"procesando", "abortando"}
    /\ ~aTarea[p].lista
    /\ \E t \in Tareas(aFlags) : aTarea' = [aTarea EXCEPT ![p] = t]
    /\ UNCHANGED <<reloj, pronFile, carFile, aPc, aFlags, aRecogidos, aResult,
                   previo, actual>>
    /\ MainFrame

\* for futuro in as_completed(futuros): futuro.result() returns and the
\* parts that are not None are appended, or it raises what the task raised
\* and main() is left through the with block (lines 162-165)
RecogerFuturo(p) ==
    /\ aPc = "procesando"
    /\ aTarea[p].lista
    /\ p \notin aRecogidos
    /\ aRecogidos' = aRecogidos \cup {p}
    /\ IF aTarea[p].lanza
       THEN /\ aPc' = "abortando"
            /\ UNCHANGED aResult
       ELSE /\ aPc' = aPc
            /\ aResult' =
                [pron |-> IF aTarea[p].pron # 0
                          THEN Append(aResult.pron, <<p, aTarea[p].pron>>)
                          ELSE aResult.pron,
                 car  |-> IF aTarea[p].car # 0
                          THEN Append(aResult.car, <<p, aTarea[p].car>>)
                          ELSE aResult.car]
    /\ UNCHANGED <<reloj, pronFile, carFile, aFlags, aTarea, previo, actual>>
    /\ MainFrame

\* the with block waits for the tasks still running, then the exception
\* leaves main(): nothing is written
Abortar ==
    /\ aPc = "abortando"
    /\ \A p \in Provincias : aTarea[p].lista
    /\ aPc' = "abortado"
    /\ UNCHANGED <<reloj, pronFile, carFile, aFlags, aTarea, aRecogidos, aResult,
                   previo, actual>>
    /\ MainFrame

\* a forecast file written whatever its stamp check said
GuardarPronostico_siempre ==
    /\ aPc = "procesando"
    /\ aRecogidos = Provincias
    /\ aPc' = "pron_listo"
    /\ pronFile' = [existe |-> TRUE, legible |-> TRUE,
                    fecha_generacion |-> reloj,
                    provincias |-> aResult.pron]
    /\ actual' = [actual EXCEPT !.escribio_pron = TRUE]
    /\ UNCHANGED <<reloj, carFile, aFlags, aTarea, aRecogidos, aResult, previo>>
    /\ MainFrame

\* lines 167-173: pronostico.json is written when its stamp check failed
GuardarPronostico ==
    /\ aPc = "procesando"
    /\ aRecogidos = Provincias
    /\ aPc' = "pron_listo"
    /\ IF aFlags.pron
       THEN /\ pronFile' = [existe |-> TRUE, legible |-> TRUE,
                            fecha_generacion |-> reloj,
                            provincias |-> aResult.pron]
            /\ actual' = [actual EXCEPT !.escribio_pron = TRUE]
       ELSE UNCHANGED <<pronFile, actual>>
    /\ UNCHANGED <<reloj, carFile, aFlags, aTarea, aRecogidos, aResult, previo>>
    /\ MainFrame

\* lines 175-181: carousel.json is written when its stamp check failed
GuardarCarousel ==
    /\ aPc = "pron_listo"
    /\ aPc' = "fin"
    /\ IF aFlags.car
       THEN carFile' = [existe |-> TRUE, legible |-> TRUE,
                        fecha_generacion |-> reloj,
                        provincias |-> aResult.car]
       ELSE UNCHANGED carFile
    /\ UNCHANGED <<reloj, pronFile, aFlags, aTarea, aRecogidos, aResult,
                   previo, actual>>
    /\ MainFrame

\* the process ends, and its locals with it; the entry point may be run
\* again
OtraCorrida ==
    /\ aPc \in {"fin", "abortado"}
    /\ aPc' = "inactivo"
    /\ Cerrar
    /\ aFlags' = [pron |-> FALSE, car |-> FALSE]
    /\ aTarea' = [p \in Provincias |-> SinTarea]
    /\ aRecogidos' = {}
    /\ aResult' = [pron |-> <<>>, car |-> <<>>]
    /\ UNCHANGED <<reloj, pronFile, carFile, actual>>
    /\ MainFrame

NextMain ==
    \/ TickReloj
    \/ Revisar
    \/ \E p \in Provincias : TareaTermina(p)
    \/ \E p \in Provincias : RecogerFuturo(p)
    \/ Abortar
    \/ GuardarPronostico
    \/ GuardarCarousel
    \/ OtraCorrida

SpecMain == InitMain /\ [][NextMain]_vars


---------------------------------------------------------------------------
(* modelo_pronostico.py: predecir_7dias *)

\* range(7)
NumDias == 7

\* the calendar of the model: months of DiasMes days
DiasMes == 30
Mes(d) == ((d - 1) \div DiasMes) + 1
\* fecha_pred.strftime("%Y-%m-%d")
Strftime(d) == <<Mes(d), ((d - 1) % DiasMes) + 1>>

\* the date of a step that does not advance with the loop variable
FechaPred_fija(base, i) == base

\* fecha_pred = fecha_base + pd.Timedelta(days=dia)
FechaPred(base, i) == base + i

\* round(x) of a float: half-even, to a whole number (here of degrees)
RoundInt(x) == Round0(x) \div 100

\* 1000 * ln(rh / 100) for the humidities the models of this model predict
\* (np.log of np.clip(rhum_pred, 1, 100) / 100)
Ln1000(rh) ==
    CASE rh >= 10000 -> 0
      [] rh = 7500 -> -288
      [] rh = 5000 -> -693
      [] rh = 2500 -> -1386
      [] OTHER -> -4605

\* the inverted Magnus-Tetens relation of lines 206-211, a = 17.27 and
\* b = 237.7, in fixed point; the except branch (temp_pred - 2) is where
\* the first division is by zero
PuntoRocio(temp_pred, rhum_pred) ==
    IF 23770 + temp_pred = 0 THEN temp_pred - 200
    ELSE LET alpha == ((17270 * temp_pred) \div (23770 + temp_pred))
                      + Ln1000(rhum_pred)
         IN  (23770 * alpha) \div (17270 - alpha)

Clip(x, lo, hi) == Max2(lo, Min2(x, hi))

\* lines 213-218: precip = round(prob_lluvia * 3.0, 1), 0.0 below 0.1
Precipitacion(rhum_pred, pres_pred) ==
    LET h == Clip(rhum_pred - 7000, 0, 3000) \div 20
        q == (Clip(101800 - pres_pred, 0, 2000) * 3) \div 40
        precip == Round1(h + q)
    IN  IF precip < 10 THEN 0 ELSE precip

\* what the function derives from df before the loop (lines 169-173): the
\* temperature and dew point of the last row, the range of the temperatures
\* the models were fitted on (a missing temperature is fitted as 0), the
\* 10th and 90th percentile of the noon temperatures (equal for the months
\* `meses` that hold noon rows), the standard deviation of the temperature
\* (0 for a constant series, NaN for a series that records no temperature),
\* and the humidity, pressure and wind speed: they are constant over the
\* series, so that a forest fitted on them predicts exactly them
Historias ==
    {[obs_temp |-> 2000, obs_dwpt |-> 2000, tmin |-> 2000, tmax |-> 2000,
      q10 |-> 2000, q90 |-> 2000, meses |-> {}, global_std |-> 0,
      rhum |-> 10000, pres |-> 101300, wspd |-> 1200],
     [obs_temp |-> NaN, obs_dwpt |-> NaN, tmin |-> 0, tmax |-> 0,
      q10 |-> NaN, q90 |-> NaN, meses |-> {}, global_std |-> NaN,
      rhum |-> 5000, pres |-> 101300, wspd |-> 1200],
     [obs_temp |-> 1000, obs_dwpt |-> 1000, tmin |-> 1000, tmax |-> 2000,
      q10 |-> 1100, q90 |-> 1900, meses |-> {1, 2}, global_std |-> 300,
      rhum |-> 10000, pres |-> 100800, wspd |-> 1200],
     [obs_temp |-> 2000, obs_dwpt |-> 900, tmin |-> 1000, tmax |-> 2000,
      q10 |-> 1100, q90 |-> 1900, meses |-> {1}, global_std |-> 300,
      rhum |-> 5000, pres |-> 101300, wspd |-> 600],
     [obs_temp |-> 3000, obs_dwpt |-> 1800, tmin |-> 3000, tmax |-> 4150,
      q10 |-> 3200, q90 |-> 4000, meses |-> {1, 2}, global_std |-> 300,
      rhum |-> 5000, pres |-> 102000, wspd |-> 1200]}

\* what modelos["temp"].predict may return: a forest predicts a mean of
\* training targets, so a value of their range (here one of its two ends)
ModeloTemp(h) == {h.tmin, h.tmax}

\* the random draws of one step: ruido is np.random.normal(0, global_std) +
\* np.random.uniform(-1, 1), alta is np.random.uniform(0, 2) and baja is
\* np.random.uniform(-2, 0). With global_std = 0 the noise is below 1
Sorteo(h) ==
    {[ruido |-> 0, alta |-> 30, baja |-> -30],
     [ruido |-> IF h.global_std = 0 THEN 90 ELSE 300, alta |-> 190, baja |-> -200]}

\* the dates a call may happen on: early in a month and at its end
FechasBase == {1, 28}

InitPred ==
    /\ hist \in Historias
    /\ fecha_base \in FechasBase
    /\ fPc = "inactivo"
    /\ dia = 0
    /\ ultimo = SinUltimo
    /\ predicciones = <<>>
    /\ X = SinX
    /\ RepairMergeIdle /\ RunIdle /\ MainIdle /\ CalcIdle /\ ClimaIdle
    /\ MonitorIdle

PredFrame == UNCHANGED <<repairVars, mergeVars, runVars, mainVars, calcVars, climaVars, monitorVars>>

\* X = np.array([ultimo.get(f, 0.0) for f in features]) (line 192): the
\* value the rolling state holds under the name of the feature, 0.0 for a
\* name it does not hold
VectorX(u) == [f \in features |-> IF f \in DOMAIN u THEN u[f] ELSE 0]

\* lines 156-175: the last row becomes the rolling state
Preparar ==
    /\ fPc = "inactivo"
    /\ fPc' = "bucle"
    /\ dia' = 0
    /\ ultimo' = [temp |-> hist.obs_temp, dwpt |-> hist.obs_dwpt,
                  rhum |-> hist.rhum, pres |-> hist.pres, prcp |-> 0,
                  wspd |-> hist.wspd]
    /\ predicciones' = <<>>
    /\ UNCHANGED <<hist, fecha_base, X>>
    /\ PredFrame

\* one pass of the loop body (lines 178-247) that raises: on a rolling
\* state without temperature, predict may reject the NaN of the feature
\* vector (the library decides); past day 0 the noise of a series whose
\* standard deviation is NaN makes temp_pred NaN, and round(temp_pred)
\* raises ValueError. Both happen after the feature vector was built and
\* handed to the regressors
PasoLanza ==
    /\ fPc = "bucle"
    /\ dia < NumDias
    /\ \/ dia = 0 /\ IsNaN(ultimo.temp)
       \/ dia # 0 /\ IsNaN(hist.global_std)
    /\ fPc' = "lanzo"
    /\ predicciones' = <<>>
    /\ X' = VectorX(ultimo)
    /\ UNCHANGED <<hist, fecha_base, dia, ultimo>>
    /\ PredFrame

\* one pass of the loop body (lines 178-247)
Paso ==
    /\ fPc = "bucle"
    /\ dia < NumDias
    /\ ~(dia # 0 /\ IsNaN(hist.global_std))
    /\ \E modelo_temp \in ModeloTemp(hist) : \E z \in Sorteo(hist) :
        LET fecha_pred == FechaPred(fecha_base, dia)
            temp_pred == modelo_temp + (IF dia # 0 THEN z.ruido ELSE 0)
            rhum_pred == hist.rhum
            pres_pred == hist.pres
            wspd_pred == hist.wspd
            dwpt_pred == PuntoRocio(temp_pred, rhum_pred)
            precip    == Precipitacion(rhum_pred, pres_pred)
            coco      == calcular_coco(temp_pred, dwpt_pred, rhum_pred,
                                       pres_pred, precip)
            \* max(x, nan) and min(x, nan) are x
            std       == IF IsNaN(hist.global_std) THEN 0 ELSE hist.global_std
            temp_high_hist == IF Mes(fecha_pred) \in hist.meses THEN hist.q90
                              ELSE temp_pred + std
            temp_low_hist  == IF Mes(fecha_pred) \in hist.meses THEN hist.q10
                              ELSE temp_pred - std
            temp_high == Max2(temp_pred, temp_high_hist) + z.alta
            temp_low  == Min2(temp_pred, temp_low_hist) + z.baja
        IN  /\ predicciones' = Append(predicciones,
                   [fecha |-> Strftime(fecha_pred),
                    temp_avg |-> RoundInt(temp_pred),
                    temp_high |-> RoundInt(temp_high),
                    temp_low |-> RoundInt(temp_low),
                    precip |-> precip,
                    coco |-> coco])
            /\ ultimo' = [temp |-> temp_pred, dwpt |-> dwpt_pred,
                          rhum |-> rhum_pred, pres |-> pres_pred,
                          prcp |-> precip, wspd |-> wspd_pred]
    /\ X' = VectorX(ultimo)
    /\ dia' = dia + 1
    /\ UNCHANGED <<hist, fecha_base, fPc>>
    /\ PredFrame

\* return predicciones
Retorno ==
    /\ fPc = "bucle"
    /\ dia = NumDias
    /\ fPc' = "retorno"
    /\ UNCHANGED <<hist, fecha_base, dia, ultimo, predicciones, X>>
    /\ PredFrame

NextPred == Preparar \/ PasoLanza \/ Paso \/ Retorno

SpecPred == InitPred /\ [][NextPred]_vars

---------------------------------------------------------------------------
(* One call of each calculator of parametros.py *)

\* the arguments a caller may pass: a value, None, NaN (what a frame holds
\* for a missing value) or, for the temperature, a str
Temperaturas == {Ninguno, NaN, Texto, -500, 1000, 1010, 2000, 2700, 3500}
Humedades    == {Ninguno, NaN, 3000, 4000, 9000, 9900}
Vientos      == {Ninguno, NaN, 300, 480, 2000, 4000}
PuntosRocio  == {Ninguno, 950, -1500}
Presiones    == {101300, 100000}
Lluvias      == {Ninguno, 0, 300, 2500}
Nieves       == {0, 300}
Cocos        == {Ninguno, NaN, 2, 4}

Argumentos ==
    [temp : Temperaturas, rhum : Humedades, wspd : Vientos, dwpt : PuntosRocio,
     pres : Presiones, prcp : Lluvias, snow : Nieves, coco : Cocos]

InitCalc ==
    /\ cIn \in Argumentos
    /\ cOut = SinSalida
    /\ cPc = "entrada"
    /\ RepairMergeIdle /\ RunIdle /\ MainIdle /\ PredIdle /\ ClimaIdle
    /\ MonitorIdle

CalcFrame == UNCHANGED <<repairVars, mergeVars, runVars, mainVars, predVars,
                         climaVars, monitorVars>>

\* each calculator is called once with the arguments
Calcular ==
    /\ cPc = "entrada"
    /\ cPc' = "una"
    /\ cOut' = [wc    |-> calcular_wind_chill(cIn.temp, cIn.wspd),
                hi    |-> calcular_heat_index(cIn.temp, cIn.rhum),
                at    |-> calcular_apparent_temperature(cIn.temp, cIn.rhum, cIn.wspd),
                sens  |-> calcular_sensacion_termica(cIn.temp, cIn.rhum, cIn.wspd),
                coco  |-> calcular_coco(cIn.temp, cIn.dwpt, cIn.rhum, cIn.pres, cIn.prcp),
                coco2 |-> 0,
                vis   |-> calcular_visibilidad(cIn.temp, cIn.rhum, cIn.dwpt, cIn.prcp,
                                               cIn.snow, cIn.wspd, cIn.coco)]
    /\ UNCHANGED cIn
    /\ CalcFrame

\* calcular_coco is called a second time with the same arguments
LlamarOtraVez ==
    /\ cPc = "una"
    /\ cPc' = "hecho"
    /\ cOut' = [cOut EXCEPT
                  !.coco2 = calcular_coco(cIn.temp, cIn.dwpt, cIn.rhum, cIn.pres, cIn.prcp)]
    /\ UNCHANGED cIn
    /\ CalcFrame

NextCalc == Calcular \/ LlamarOtraVez

SpecCalc == InitCalc /\ [][NextCalc]_vars

---------------------------------------------------------------------------
(* actualclima.py: current conditions and the next hours *)

\* the hours a series may hold: a stretch around noon and one around
\* midnight, Tramo + 1 hours each (hour numbers; the hour of the day of
\* hour h is h % 24)
Tramo == 3
HorasSerie == (11..(11 + Tramo)) \cup (22..(22 + Tramo))

\* now: from before the first hour a series may hold to after the last
Ahoras == 10..(23 + Tramo)

\* the row a complete series holds for hour h: clear, fair and cloudy sky
\* codes, and some rows without a sky code
FilaClima(h) ==
    [fecha_hora |-> h,
     temp |-> 1000 + 13 * h,
     coco |-> IF h % 4 = 0 THEN NaN
              ELSE IF h % 4 = 2 THEN 1
              ELSE IF h % 4 = 1 THEN 2
              ELSE 3,
     visibilidad |-> IF h % 2 = 0 THEN 1000 ELSE NaN]

\* what a CSV file may be short of: nothing; a column (a file written
\* before the column existed, or by hand); or a numeric column that holds
\* text, which read_csv then loads as str
Defectos == {"ninguno", "sin_visibilidad", "sin_temp", "sin_coco", "temp_texto"}

\* the row of hour h in a file with the defect d
FilaCon(h, d) ==
    LET fila == FilaClima(h)
    IN  CASE d = "sin_visibilidad" ->
                [c \in DOMAIN fila \ {"visibilidad"} |-> fila[c]]
          [] d = "sin_temp" -> [c \in DOMAIN fila \ {"temp"} |-> fila[c]]
          [] d = "sin_coco" -> [c \in DOMAIN fila \ {"coco"} |-> fila[c]]
          [] d = "temp_texto" -> [fila EXCEPT !.temp = Texto]
          [] OTHER -> fila

\* the series cargar_csv_provincia may load: rows in increasing time, one
\* per hour held, with or without gaps
SeriesClima ==
    {[i \in 1..Cardinality(H) |-> FilaCon(EnOrden(H)[i], d)] :
        H \in (SUBSET HorasSerie) \ {{}}, d \in Defectos}

\* the icon of the table at every hour
Icono_sin_noche(coco, hora) ==
    IF coco \in DOMAIN weather_icons THEN weather_icons[coco] ELSE "unknown.svg"

\* weather_icons.get(coco, "unknown.svg") with the night version of the
\* clear and fair icons between 20 h and 7 h
Icono(coco, hora) ==
    LET icono == IF coco \in DOMAIN weather_icons THEN weather_icons[coco]
                 ELSE "unknown.svg"
    IN  IF hora >= 20 \/ hora < 7
        THEN (IF icono = "clear.svg" THEN "clear_night.svg"
              ELSE IF icono = "fair.svg" THEN "fair_night.svg"
              ELSE icono)
        ELSE icono

\* int(coco) if not pd.isna(coco) else None
CocoONinguno(coco) == IF IsNaN(coco) THEN Ninguno ELSE coco

\* round(x, 1) if not pd.isna(x) else None
Redondear1(x) == IF IsNaN(x) THEN Ninguno ELSE Round1(x)

\* df[df["fecha_hora"] <= ahora]
Pasado(df, ahora) == SelectSeq(df, LAMBDA r : r.fecha_hora <= ahora)

\* reading the row raises: fila["coco"] and fila["temp"] (fila.coco and
\* fila.temp of a tuple) of a column the frame does not have, int() or
\* round() of a str
FilaLanza(fila) ==
    \/ "coco" \notin DOMAIN fila
    \/ "temp" \notin DOMAIN fila
    \/ fila.coco = Texto
    \/ fila.temp = Texto

\* lines 63-88: the dict built from the chosen row (retorno), unless
\* reading the row raises (lanzo); fila.get("visibilidad") is None for a
\* column the frame does not have
ReporteActual(fila, ahora) ==
    IF FilaLanza(fila) THEN [lanzo |-> TRUE, retorno |-> SinFila]
    ELSE [lanzo |-> FALSE,
          retorno |->
            [fecha_hora |-> fila.fecha_hora,
             temperatura |-> Redondear1(fila.temp),
             visibilidad |-> IF "visibilidad" \in DOMAIN fila
                             THEN Redondear1(fila.visibilidad) ELSE Ninguno,
             coco |-> CocoONinguno(fila.coco),
             icono |-> Icono(CocoONinguno(fila.coco), ahora % 24)]]

\* the first row of the rows up to now
obtener_clima_actual_primera(df, ahora) ==
    ReporteActual(IF Len(Pasado(df, ahora)) > 0 THEN Pasado(df, ahora)[1] ELSE df[1],
                  ahora)

\* obtener_clima_actual: the last row of the rows up to now, the first row
\* of the series when there is none
obtener_clima_actual(df, ahora) ==
    LET df_pasado == Pasado(df, ahora)
        fila == IF Len(df_pasado) > 0 THEN df_pasado[Len(df_pasado)] ELSE df[1]
    IN  ReporteActual(fila, ahora)

\* fecha_hora.strftime("%I %p").lstrip("0"): the hour on the 12-hour clock
\* and the half of the day
Strftime_I_p(h) ==
    <<IF (h % 24) % 12 = 0 THEN 12 ELSE (h % 24) % 12,
      IF h % 24 < 12 THEN "AM" ELSE "PM">>

\* df.loc[idx_actual:].head(n) as entries (retorno), unless reading one of
\* the rows raises (lanzo): positions start at 1 here, the index labels of
\* the frame at 0
Entradas(df, idx_actual, n) ==
    LET ultimo_pos == Min2(Len(df), idx_actual + n)
    IN  IF \E i \in 1..(ultimo_pos - idx_actual) : FilaLanza(df[idx_actual + i])
        THEN [lanzo |-> TRUE, retorno |-> <<>>]
        ELSE [lanzo |-> FALSE,
              retorno |->
                [i \in 1..(ultimo_pos - idx_actual) |->
                    LET fila == df[idx_actual + i]
                    IN  [time |-> IF i = 1 THEN <<"AHORA">>
                                  ELSE Strftime_I_p(fila.fecha_hora),
                         icon |-> Icono(CocoONinguno(fila.coco),
                                        fila.fecha_hora % 24),
                         temp |-> Redondear1(fila.temp),
                         coco |-> CocoONinguno(fila.coco),
                         fecha_hora |-> fila.fecha_hora]]]

\* the next hours always counted from the first row of the series
obtener_clima_horario_desde_inicio(df, ahora) == Entradas(df, 0, 6)

\* obtener_clima_horario: up to 6 rows from the greatest index whose row is
\* up to now, from index 0 when there is none
obtener_clima_horario(df, ahora) ==
    LET idx_actual == Len(Pasado(df, ahora)) - 1
    IN  Entradas(df, IF idx_actual < 0 THEN 0 ELSE idx_actual, 6)

InitClima ==
    /\ kDf \in SeriesClima
    /\ kAhora \in Ahoras
    /\ kActual = SinFila
    /\ kHoras = <<>>
    /\ kPc = "cargado"
    /\ RepairMergeIdle /\ RunIdle /\ MainIdle /\ PredIdle /\ CalcIdle
    /\ MonitorIdle

\* generar_json_clima, for one region: both functions on the loaded series
\* (lines 159-160); no try is around them, an exception of either leaves
\* generar_json_clima before anything is written
GenerarClima ==
    /\ kPc = "cargado"
    /\ LET actual_ == obtener_clima_actual(kDf, kAhora)
           horas == obtener_clima_horario(kDf, kAhora)
       IN  IF actual_.lanzo \/ horas.lanzo
           THEN /\ kPc' = "lanzo"
                /\ UNCHANGED <<kActual, kHoras>>
           ELSE /\ kPc' = "hecho"
                /\ kActual' = actual_.retorno
                /\ kHoras' = horas.retorno
    /\ UNCHANGED <<kDf, kAhora>>
    /\ UNCHANGED <<repairVars, mergeVars, runVars, mainVars, predVars, calcVars,
                   monitorVars>>

NextClima == GenerarClima

SpecClima == InitClima /\ [][NextClima]_vars

---------------------------------------------------------------------------
(* Specification of the controller and its hourly monitor (main.py) *)

\* the hours of a day on the clock (24 in the program: the dial is scaled)
HorasReloj == 3
\* the clock runs over the hours 0..MaxAhora
MaxAhora == 7

\* datetime.now(tz=zona).hour
Hora(t) == t % HorasReloj

\* the scripts of the start-up, steps 1 to 4, in the order main.py runs them
GuionesArranque == <<"actualizarxfecha.py", "actualizarxhora.py",
                     "actualizargraficos.py", "actualizarpronostico.py">>
\* the scripts of one update cycle, in the order the monitor runs them
GuionesCiclo == <<"actualizarxhora.py", "actualizargraficos.py",
                  "actualizarpronostico.py">>

\* the scripts of a list of runs, without their outcome
Guiones(corridas) == [i \in DOMAIN corridas |-> corridas[i].guion]

SinCiclos == [hechos |-> 0, disparo |-> Ninguno, desde |-> 0]

InitMonitor ==
    /\ nAhora \in 0..(HorasReloj - 1)
    /\ nMain = "arranque"
    /\ nArranque = <<>>
    /\ nHilo = "no_iniciado"
    /\ ultima_hora = Ninguno
    /\ hora_actual = Ninguno
    /\ nPasos = <<>>
    /\ nCiclos = SinCiclos
    /\ RepairMergeIdle /\ RunIdle /\ MainIdle /\ PredIdle /\ CalcIdle /\ ClimaIdle

MonitorFrame == UNCHANGED <<repairVars, mergeVars, runVars, mainVars, predVars,
                            calcVars, climaVars>>

\* the system clock reaches the next hour, whatever the threads are doing
TickHora ==
    /\ nAhora < MaxAhora
    /\ nAhora' = nAhora + 1
    /\ UNCHANGED <<nMain, nArranque, nHilo, ultima_hora, hora_actual, nPasos,
                   nCiclos>>
    /\ MonitorFrame

\* steps 1 to 4: subprocess.run(..., check=True) inside a try whose except
\* only prints, so the next step follows a failed one (lines 103-131)
PasoArranque ==
    /\ nMain = "arranque"
    /\ Len(nArranque) < Len(GuionesArranque)
    /\ \E ok \in BOOLEAN :
          nArranque' = Append(nArranque,
              [guion |-> GuionesArranque[Len(nArranque) + 1], ok |-> ok])
    /\ UNCHANGED <<nAhora, nMain, nHilo, ultima_hora, hora_actual, nPasos,
                   nCiclos>>
    /\ MonitorFrame

\* step 5: the monitor thread is created and started (lines 134-135)
IniciarHilo ==
    /\ nMain = "arranque"
    /\ Len(nArranque) = Len(GuionesArranque)
    /\ nMain' = "interfaz"
    /\ nHilo' = "registra"
    /\ UNCHANGED <<nAhora, nArranque, ultima_hora, hora_actual, nPasos, nCiclos>>
    /\ MonitorFrame

\* the thread records the hour it starts at (lines 63-65)
RegistrarHoraInicial ==
    /\ nHilo = "registra"
    /\ ultima_hora' = Hora(nAhora)
    /\ nCiclos' = [nCiclos EXCEPT !.desde = nAhora]
    /\ nHilo' = "duerme"
    /\ UNCHANGED <<nAhora, nMain, nArranque, hora_actual, nPasos>>
    /\ MonitorFrame

\* one pass of the loop up to the test: the sleep ends, the hour is read and
\* compared with the recorded one (lines 67-71)
Poll ==
    /\ nHilo = "duerme"
    /\ hora_actual' = Hora(nAhora)
    /\ IF Hora(nAhora) # ultima_hora
       THEN /\ nHilo' = "clima"
            /\ nPasos' = <<>>
            /\ nCiclos' = [nCiclos EXCEPT !.hechos = @ + 1,
                                          !.disparo = Hora(nAhora)]
       ELSE UNCHANGED <<nHilo, nPasos, nCiclos>>
    /\ UNCHANGED <<nAhora, nMain, nArranque, ultima_hora>>
    /\ MonitorFrame

\* the script the monitor runs at the position `pc`, and the position after
GuionDe(pc) ==
    IF pc = "clima" THEN GuionesCiclo[1]
    ELSE IF pc = "graficos" THEN GuionesCiclo[2] ELSE GuionesCiclo[3]
Siguiente(pc) ==
    IF pc = "clima" THEN "graficos"
    ELSE IF pc = "graficos" THEN "pronostico" ELSE "registro"

\* one of the three try blocks of the cycle: subprocess.run blocks until the
\* script ends; its failure is printed and the cycle goes on (lines 74-92)
CorrerScript ==
    /\ nHilo \in {"clima", "graficos", "pronostico"}
    /\ \E ok \in BOOLEAN :
          nPasos' = Append(nPasos, [guion |-> GuionDe(nHilo), ok |-> ok])
    /\ nHilo' = Siguiente(nHilo)
    /\ UNCHANGED <<nAhora, nMain, nArranque, ultima_hora, hora_actual, nCiclos>>
    /\ MonitorFrame

\* a cycle that ends without recording the hour
FinCiclo_sin_registro ==
    /\ nHilo = "registro"
    /\ nHilo' = "duerme"
    /\ UNCHANGED <<nAhora, nMain, nArranque, ultima_hora, hora_actual, nPasos,
                   nCiclos>>
    /\ MonitorFrame

\* ultima_hora = hora_actual, and the loop goes back to the sleep (line 94)
FinCiclo ==
    /\ nHilo = "registro"
    /\ ultima_hora' = hora_actual
    /\ nHilo' = "duerme"
    /\ UNCHANGED <<nAhora, nMain, nArranque, hora_actual, nPasos, nCiclos>>
    /\ MonitorFrame

\* step 6 ends: the window is closed, webview.start() returns and the
\* process exits, which ends the daemon thread wherever it stands
\* (lines 134, 138-143)
CerrarInterfaz ==
    /\ nMain = "interfaz"
    /\ nMain' = "finalizado"
    /\ nHilo' = "terminado"
    /\ UNCHANGED <<nAhora, nArranque, ultima_hora, hora_actual, nPasos, nCiclos>>
    /\ MonitorFrame

NextMonitor ==
    \/ TickHora
    \/ PasoArranque
    \/ IniciarHilo
    \/ RegistrarHoraInicial
    \/ Poll
    \/ CorrerScript
    \/ FinCiclo
    \/ CerrarInterfaz

SpecMonitor == InitMonitor /\ [][NextMonitor]_vars

---------------------------------------------------------------------------
(* Specification of the repair engine *)


InitRepair ==
    /\ rIn \in Frames(Lecturas, MaxLen)
    /\ rOut = [raised |-> FALSE, df |-> <<>>]
    /\ rPc = "entrada"
    /\ MergeIdle /\ RunIdle /\ MainIdle /\ PredIdle /\ CalcIdle /\ ClimaIdle
    /\ MonitorIdle

Reparar ==
    /\ rPc = "entrada"
    /\ rOut' = rellenar_horas_perdidas(rIn)
    /\ rPc' = "hecho"
    /\ UNCHANGED <<rIn, mergeVars, runVars, mainVars, predVars, calcVars, climaVars, monitorVars>>

NextRepair == Reparar

SpecRepair == InitRepair /\ [][NextRepair]_vars

---------------------------------------------------------------------------
(* Specification of the merge block *)

InitMerge ==
    /\ mExistente \in {<<>>} \cup Frames({Persistida(ts) : ts \in 0..MaxTs}, MaxLen)
    /\ mData \in {rellenar_horas_perdidas(Descarga(H)).df :
                    H \in (SUBSET (0..MaxTs)) \ {{}}}
    /\ mFinal = <<>>
    /\ mPc = "entrada"
    /\ RepairIdle /\ RunIdle /\ MainIdle /\ PredIdle /\ CalcIdle /\ ClimaIdle
    /\ MonitorIdle

CombinarFrames ==
    /\ mPc = "entrada"
    /\ mFinal' = Combinar(mExistente, mData)
    /\ mPc' = "hecho"
    /\ UNCHANGED <<mExistente, mData, repairVars, runVars, mainVars, predVars, calcVars, climaVars, monitorVars>>

NextMerge == CombinarFrames

SpecMerge == InitMerge /\ [][NextMerge]_vars

---------------------------------------------------------------------------
(* Claims on the repair engine *)

Horas(df) == {df[i].fecha_hora : i \in DOMAIN df}

\* C1: for any non-empty input (gaps, out-of-order rows, repeated
\* timestamps included) the repaired output holds exactly one row for every
\* hour between the smallest and the largest input timestamp, in strictly
\* increasing order
C1_RepairContiguity ==
    rPc = "hecho" =>
        /\ ~rOut.raised
        /\ Len(rOut.df) = MaxFecha(rIn) - MinFecha(rIn) + 1
        /\ \A k \in DOMAIN rOut.df :
              rOut.df[k].fecha_hora = MinFecha(rIn) + k - 1

\* the input row of hour h misses field f, or the input holds no row for h
FaltaEnEntrada(h, f) ==
    \A i \in DOMAIN rIn : rIn[i].fecha_hora = h => IsNaN(rIn[i][f])

\* C4: every row of the repaired series whose precipitation (snow,
\* sunshine) was missing in the input, as a missing value of an existing row
\* or as a row introduced by reindexing, holds exactly 0.0 there
C4_ZeroFill ==
    (rPc = "hecho" /\ ~rOut.raised) =>
        \A k \in DOMAIN rOut.df : \A f \in SeqToSet(zero_fields) :
            FaltaEnEntrada(rOut.df[k].fecha_hora, f) => rOut.df[k][f] = 0

\* C4 witness: a repaired series with a gap row and an existing row without
\* precipitation, both between rows that report 2.5 mm
C4_Witness ==
    /\ rPc = "hecho" /\ ~rOut.raised
    /\ Len(rOut.df) = 4
    /\ \E i \in DOMAIN rIn : rIn[i].fecha_hora = 1 /\ IsNaN(rIn[i].prcp)
    /\ ~\E i \in DOMAIN rIn : rIn[i].fecha_hora = 2
    /\ rOut.df[1].prcp = 250 /\ rOut.df[4].prcp = 250
    /\ rOut.df[2].prcp = 0 /\ rOut.df[3].prcp = 0
    /\ rOut.df[3].snow = 0 /\ rOut.df[3].tsun = 0


---------------------------------------------------------------------------
(* Claims on the download run *)

\* one row per hour from the first to the last timestamp, no gap, no repeat
Contiguo(df) ==
    \A k \in 1..(Len(df) - 1) : df[k + 1].fecha_hora = df[k].fecha_hora + 1

\* C2: after any sequence of download runs the persisted series of every
\* province is complete-hourly, also across the boundary between the rows
\* persisted before and the rows just fetched
C2_PersistedCompleteHourly ==
    \A p \in Provincias : archivo[p].existe => Contiguo(archivo[p].df)

Veces(p) ==
    Cardinality({<<e, i>> \in Estados \X (1..Cardinality(Provincias)) :
                    i \in DOMAIN status[e] /\ status[e][i] = p})

\* some task or the collecting loop can take a step (the guards of
\* LeerYRango, AdquirirLock, FetchFalla, FetchRetorna, ProcesarYGuardar,
\* Recoger and Informe)
HayAvance ==
    \/ \E p \in Provincias :
          \/ tpc[p] = "pendiente"
          \/ tpc[p] = "espera_lock" /\ lock = "libre"
          \/ tpc[p] = "fetch" /\ lock = p
          \/ tpc[p] = "procesa"
          \/ futuro[p].listo /\ p \notin recogidos
    \/ recogidos = Provincias

\* C10: every province yields one estado of the four; the report holds a
\* province exactly once, under the estado its future returned, as soon as
\* the main thread took that future, and not before; a run that is not
\* over can always go on, whatever the other tasks returned, and it ends
\* with every province in the report
C10_StatusReport ==
    /\ \A p \in Provincias : futuro[p].listo => futuro[p].estado \in Estados
    /\ \A p \in Provincias :
          IF p \in recogidos
          THEN /\ Veces(p) = 1
               /\ \E i \in DOMAIN status[futuro[p].estado] :
                     status[futuro[p].estado][i] = p
          ELSE Veces(p) = 0
    /\ runPc = "corriendo" => HayAvance
    /\ runPc = "terminado" => recogidos = Provincias

\* C10 witness: a finished run in which the task of A failed and the task
\* of B, which ended after it, is in the report as updated
C10_Witness ==
    /\ runPc = "terminado"
    /\ status["error"] = <<"A">>
    /\ status["actualizada"] = <<"B">>

---------------------------------------------------------------------------
(* Claims on the forecast run *)

\* C5: when the entry point ran and wrote pronostico.json within one
\* calendar day and runs again within that day, the second run does not
\* write the file, which stays as the first run left it
C5_IdempotentSkip ==
    (/\ aPc # "inactivo"
     /\ previo.valida /\ previo.escribio_pron
     /\ previo.dia_inicio = previo.dia_fin
     /\ actual.dia_inicio = previo.dia_fin
     /\ reloj = actual.dia_inicio)
    => (~actual.escribio_pron /\ pronFile = previo.pron)

\* C5 witness: the second run of a day has ended, the first having written
\* a forecast file that holds province A only (the task of B gave none)
C5_Witness ==
    /\ aPc = "fin"
    /\ previo.valida /\ previo.escribio_pron
    /\ previo.dia_inicio = previo.dia_fin
    /\ actual.dia_inicio = previo.dia_fin
    /\ reloj = actual.dia_inicio
    /\ ~aFlags.pron
    /\ Len(pronFile.provincias) = 1
    /\ pronFile.provincias[1][1] = "A"


---------------------------------------------------------------------------
(* Claims on the walk-forward forecaster *)

\* C6: every Forecast Day emitted has temp_high > temp_low, and its
\* temp_low is at least the dew point estimated in its step minus 2 (the
\* estimate of the last step is what the rolling state holds)
C6_ForecastInvariant ==
    /\ \A i \in DOMAIN predicciones :
          predicciones[i].temp_high > predicciones[i].temp_low
    /\ (fPc = "bucle" /\ dia >= 1) =>
          predicciones[dia].temp_low * 100 >= ultimo.dwpt - 200

\* C7: Forecast Day 0 is the real observation: when the last row of the
\* series records a temperature, the temp_high and temp_low of day 0 lie
\* within 2 degrees of it
C7_Day0Passthrough ==
    (Len(predicciones) >= 1 /\ ~IsNaN(hist.obs_temp)) =>
        /\ predicciones[1].temp_high * 100 <= hist.obs_temp + 200
        /\ predicciones[1].temp_high * 100 >= hist.obs_temp - 200
        /\ predicciones[1].temp_low * 100 <= hist.obs_temp + 200
        /\ predicciones[1].temp_low * 100 >= hist.obs_temp - 200

\* C8: a forecast that is returned holds exactly 7 entries, dated the day
\* of the call, then +1, ..., +6 days
C8_SevenConsecutiveDays ==
    fPc = "retorno" =>
        /\ Len(predicciones) = 7
        /\ \A i \in 1..7 : predicciones[i].fecha = Strftime(fecha_base + i - 1)
        /\ \A i, j \in 1..7 : i # j => predicciones[i].fecha # predicciones[j].fecha

\* C8 witness: a returned forecast that starts on day 28 of a month and
\* ends on day 4 of the next
C8_Witness ==
    /\ fPc = "retorno"
    /\ predicciones[1].fecha = <<1, 28>>
    /\ predicciones[7].fecha = <<2, 4>>

\* C9: what a step emits and folds into the rolling state is clipped:
\* temperature within [-10, 42], humidity within [0, 100], pressure within
\* [950, 1060]
C9_BoundedOutputs ==
    /\ \A i \in DOMAIN predicciones :
          predicciones[i].temp_avg >= -10 /\ predicciones[i].temp_avg <= 42
    /\ (fPc = "bucle" /\ dia >= 1) =>
          /\ ultimo.temp >= -1000 /\ ultimo.temp <= 4200
          /\ ultimo.rhum >= 0 /\ ultimo.rhum <= 10000
          /\ ultimo.pres >= 95000 /\ ultimo.pres <= 106000


---------------------------------------------------------------------------
(* Claims on the forecast run's failures *)

\* the provinces a forecast file lists
EnArchivo(f) == {f.provincias[i][1] : i \in DOMAIN f.provincias}

\* C11: a province whose task raises does not abort the forecast run: a run
\* that had to write pronostico.json and has ended has written it, stamped
\* no earlier than the run's first day, with every province whose task
\* returned a forecast
C11_FailureIsolation ==
    (aPc \in {"fin", "abortado"} /\ aFlags.pron) =>
        /\ archivo_del_dia(pronFile, pronFile.fecha_generacion)
        /\ pronFile.fecha_generacion >= actual.dia_inicio
        /\ \A p \in Provincias :
              (~aTarea[p].lanza /\ aTarea[p].pron # 0) => p \in EnArchivo(pronFile)


---------------------------------------------------------------------------
(* Claims on the download run's lock *)

\* the tasks that are inside Hourly(...).fetch()
EnFetch == {p \in Provincias : tpc[p] = "fetch"}

\* C12: at most one task of a download run is inside the fetch at any time,
\* and a task inside the fetch holds the lock
C12_FetchMutex ==
    /\ Cardinality(EnFetch) <= 1
    /\ \A p \in EnFetch : lock = p

\* C12 witness: one task is inside the fetch while another one, which also
\* has a range to download, waits for the lock
C12_Witness ==
    \E p, q \in Provincias :
        /\ p # q
        /\ tpc[p] = "fetch" /\ lock = p
        /\ tpc[q] = "espera_lock"


---------------------------------------------------------------------------
(* Claims on corrupt persisted files *)

\* C13: a download task that finds the region's CSV unreadable treats it as
\* absent: it goes on to the fetch with the range of a region without CSV,
\* and does not return at that point
C13_CorruptionAsAbsence ==
    [][\A p \in Provincias :
          (tpc[p] = "pendiente" /\ tpc'[p] # "pendiente" /\ archivo[p] = CsvIlegible)
          => /\ tpc'[p] = "espera_lock"
             /\ tLocal'[p].start_utc = rango_descarga(SinCsv, hoy)[1]
             /\ tLocal'[p].end_utc = rango_descarga(SinCsv, hoy)[2]]_vars


---------------------------------------------------------------------------
(* Claims on the calculators *)

\* an argument that holds a measurement
Disponible(x) == x \notin {Ninguno, NaN, Texto}

\* C14: for an input with a temperature, the thermal sensation is the wind
\* chill when it is valid (temperature <= 10, wind >= 4.8), else the heat
\* index when it is valid (temperature >= 27, humidity >= 40), else the
\* apparent temperature when temperature, humidity and wind are all
\* available, else the temperature
C14_SelectionOrder ==
    (cPc # "entrada" /\ Disponible(cIn.temp)) =>
        cOut.sens =
            IF Disponible(cIn.wspd) /\ cIn.temp <= 1000 /\ cIn.wspd >= 480
            THEN calcular_wind_chill(cIn.temp, cIn.wspd)
            ELSE IF Disponible(cIn.rhum) /\ cIn.temp >= 2700 /\ cIn.rhum >= 4000
            THEN calcular_heat_index(cIn.temp, cIn.rhum)
            ELSE IF Disponible(cIn.rhum) /\ Disponible(cIn.wspd)
            THEN calcular_apparent_temperature(cIn.temp, cIn.rhum, cIn.wspd)
            ELSE Round1(cIn.temp)

\* C15: calcular_coco returns the code of the first tier of its decision
\* table whose condition holds; in particular precipitation of a rain tier
\* (2.5 mm up to 20 mm) gives a rain code, and humidity below 55 with a
\* dew-point depression above 6 and no precipitation gives the clear code
C15_DecisionTable ==
    (cPc # "entrada" /\ cIn.temp # Texto /\ ~IsNaN(cIn.temp) /\ ~IsNaN(cIn.rhum)) =>
        /\ cOut.coco = CocoTabla(cIn.temp, cIn.dwpt, cIn.rhum, cIn.pres,
                                 cIn.prcp, Ninguno)
        /\ (Disponible(cIn.prcp) /\ cIn.prcp >= 250 /\ cIn.prcp < 2000)
              => cOut.coco \in {7, 8, 9}
        /\ (/\ Disponible(cIn.temp) /\ Disponible(cIn.dwpt) /\ Disponible(cIn.rhum)
            /\ cIn.prcp \in {Ninguno, 0}
            /\ cIn.rhum < 5500 /\ cIn.temp - cIn.dwpt > 600)
              => cOut.coco = 1

C17_VisibilityRange ==
    cPc # "entrada" => (cOut.vis >= 5 /\ cOut.vis <= 2000)

\* what an absence marker is: None, or NaN
Ausente(x) == x \in {Ninguno, NaN}

\* C18: no calculator raises, and a calculator given a temperature that is
\* missing, NaN or not a number returns an absence marker, not a value
C18_FailSoft ==
    cPc # "entrada" =>
        /\ Lanzado \notin {cOut.wc, cOut.hi, cOut.at, cOut.sens, cOut.coco, cOut.vis}
        /\ ~Disponible(cIn.temp) =>
              /\ Ausente(cOut.wc) /\ Ausente(cOut.hi) /\ Ausente(cOut.at)
              /\ Ausente(cOut.sens)
              /\ Ausente(cOut.coco)
              /\ Ausente(cOut.vis)


---------------------------------------------------------------------------
(* Claims on current conditions and the next hours *)

\* the positions of the rows of the series that are not after now
NoFuturas == {i \in DOMAIN kDf : kDf[i].fecha_hora <= kAhora}

\* the position of the row with the greatest timestamp up to now; the
\* first position when every row is after now
PosActual ==
    IF NoFuturas = {} THEN 1
    ELSE CHOOSE i \in NoFuturas :
            \A j \in NoFuturas : kDf[j].fecha_hora <= kDf[i].fecha_hora

\* C19: obtener_clima_actual reports the observation with the greatest
\* timestamp that is <= now, and the first row of the series when every
\* observation is after now
C19_CurrentConditions ==
    kPc = "hecho" =>
        /\ kActual.fecha_hora = kDf[PosActual].fecha_hora
        /\ kActual.temperatura = Round1(kDf[PosActual].temp)

\* C19 witness: rows before and after now, none at now, and the row
\* reported is neither the first nor the last of the series
C19_Witness ==
    /\ kPc = "hecho"
    /\ \A i \in DOMAIN kDf : kDf[i].fecha_hora # kAhora
    /\ kActual.fecha_hora > kDf[1].fecha_hora
    /\ kActual.fecha_hora < kAhora
    /\ kDf[Len(kDf)].fecha_hora > kAhora

\* C20: obtener_clima_horario returns the rows at consecutive positions
\* from the latest observation <= now (the first row when there is none):
\* min(6, rows left) entries in increasing time, the first labelled as the
\* now entry, the others with the hour on the 12-hour clock
C20_NextHours ==
    kPc = "hecho" =>
        /\ Len(kHoras) = Min2(6, Len(kDf) - PosActual + 1)
        /\ \A i \in DOMAIN kHoras :
              kHoras[i].fecha_hora = kDf[PosActual + i - 1].fecha_hora
        /\ \A i \in DOMAIN kHoras :
              i > 1 => kHoras[i - 1].fecha_hora < kHoras[i].fecha_hora
        /\ kHoras[1].time = <<"AHORA">>
        /\ \A i \in DOMAIN kHoras :
              i > 1 =>
                 /\ Len(kHoras[i].time) = 2
                 /\ kHoras[i].time[1] \in 1..12
                 /\ kHoras[i].time[2] \in {"AM", "PM"}
                 /\ (kHoras[i].time[1] % 12)
                      + (IF kHoras[i].time[2] = "PM" THEN 12 ELSE 0)
                    = kHoras[i].fecha_hora % 24

\* C20 witness: 6 entries that start after the first row of the series and
\* end before its last row, with the midnight label among them
C20_Witness ==
    /\ kPc = "hecho"
    /\ Len(kHoras) = 6
    /\ kHoras[1].fecha_hora > kDf[1].fecha_hora
    /\ kHoras[6].fecha_hora < kDf[Len(kDf)].fecha_hora
    /\ \E i \in 2..6 : kHoras[i].time = <<12, "AM">>


\* the hours of the night window
EsNoche(h) == h >= 20 \/ h < 7

\* the icon the claim asks for: the night variant of clear and fair in the
\* night window, the icon of the table otherwise
IconoEsperado(coco, h) ==
    IF coco = 1 /\ EsNoche(h) THEN "clear_night.svg"
    ELSE IF coco = 2 /\ EsNoche(h) THEN "fair_night.svg"
    ELSE IF coco \in 1..28 THEN weather_icons[coco]
    ELSE "unknown.svg"

\* C21: an icon is the night variant exactly when the sky code maps to the
\* clear or the fair icon and the relevant hour h has h >= 20 or h < 7; the
\* relevant hour is the present hour for current conditions and the row's
\* own hour for every entry of the next hours
C21_NightIcon ==
    kPc = "hecho" =>
        /\ kActual.icono = IconoEsperado(kActual.coco, kAhora % 24)
        /\ \A i \in DOMAIN kHoras :
              kHoras[i].icon = IconoEsperado(kHoras[i].coco, kHoras[i].fecha_hora % 24)

\* C21 witness: at a present hour of the day the current conditions keep
\* the day icon of a clear sky while a later entry of the next hours has
\* the night icon, and another night entry of another code keeps its icon
C21_Witness ==
    /\ kPc = "hecho"
    /\ ~EsNoche(kAhora % 24)
    /\ kActual.icono = "clear.svg"
    /\ \E i \in DOMAIN kHoras : kHoras[i].icon \in {"clear_night.svg", "fair_night.svg"}
    /\ \E i \in DOMAIN kHoras :
          EsNoche(kHoras[i].fecha_hora % 24) /\ kHoras[i].icon = "cloudy.svg"


---------------------------------------------------------------------------
(* Claims on the trainer *)

\* C22: when the fit of a province's regressors fails, the trainer does not
\* raise and the task still returns a 7-day forecast for the province when
\* the run asked for one
C22_FitFallback ==
    \A p \in Provincias :
        (aTarea[p].lista /\ aTarea[p].ajuste = "falla") =>
            /\ ~aTarea[p].lanza
            /\ aFlags.pron => aTarea[p].pron # 0


---------------------------------------------------------------------------
(* Claims on the feature vector of the forecaster *)

\* the weather columns the claim names
Plegadas == {"temp", "dwpt", "rhum", "pres"}

\* C24: when the pass of step i + 1 starts, the rolling state holds step i's
\* predictions; the feature vector the pass builds takes the temperature,
\* dew point, humidity and pressure from that state, its lag-1 features are
\* those values and its rolling means were updated from them (of positive
\* temperatures, a positive mean)
C24_FoldBack ==
    [][(fPc = "bucle" /\ dia >= 1 /\ dia' = dia + 1) =>
          /\ RoundInt(ultimo.temp) = predicciones[dia].temp_avg
          /\ \A c \in Plegadas : X'[c] = ultimo[c]
          /\ X'["temp_lag1"] = ultimo.temp
          /\ X'["dwpt_lag1"] = ultimo.dwpt
          /\ X'["rhum_lag1"] = ultimo.rhum
          /\ X'["pres_lag1"] = ultimo.pres
          /\ (hist.tmin > 0 /\ ultimo.temp > 0) => X'["temp_roll24"] > 0]_vars

\* C26: no feature vector handed to the regressors holds a missing value
C26_NoNaNToModel ==
    \A f \in features : ~IsNaN(X[f])


\* the keys of the current-conditions dict and of an entry of the next hours
ClavesActual == {"fecha_hora", "temperatura", "visibilidad", "coco", "icono"}
ClavesHora == {"time", "icon", "temp", "coco", "fecha_hora"}

\* the row obtener_clima_actual reads has no usable value in column c
SinValor(c) ==
    \/ c \notin DOMAIN kDf[PosActual]
    \/ kDf[PosActual][c] \in {NaN, Texto}

\* C23: no call raises; every current-conditions dict and every entry of
\* the next hours has the same keys; a field that is missing or malformed
\* in the series, or whose column the series does not have, is null
C23_StableSchema ==
    /\ kPc # "lanzo"
    /\ kPc = "hecho" =>
          /\ DOMAIN kActual = ClavesActual
          /\ \A i \in DOMAIN kHoras : DOMAIN kHoras[i] = ClavesHora
          /\ SinValor("temp") => kActual.temperatura = Ninguno
          /\ SinValor("visibilidad") => kActual.visibilidad = Ninguno
          /\ SinValor("coco") => kActual.coco = Ninguno


---------------------------------------------------------------------------
(* Claims on the rows of the repair *)

\* C25: when the derived-quantity computation raises for one row of the
\* input (here the sky code of a row whose code is text), the repair still
\* returns: one row per hour from the first to the last input hour, and a
\* sky code and a visibility in every row but the one that raised
C25_RowIsolation ==
    (/\ rPc = "hecho"
     /\ ~HasDuplicates(rIn)
     /\ \E i \in DOMAIN rIn : asegurar_coco_lanza(rIn[i])) =>
        /\ ~rOut.raised
        /\ Len(rOut.df) = MaxFecha(rIn) - MinFecha(rIn) + 1
        /\ \A k \in DOMAIN rOut.df :
              rOut.df[k].fecha_hora # LecturaCocoTexto.fecha_hora =>
                 /\ ~IsNaN(rOut.df[k].coco)
                 /\ ~IsNaN(rOut.df[k].visibilidad)


---------------------------------------------------------------------------
(* Claims on the frame of the persisted series *)

\* C28: the persisted series of a province changes only in the step of its
\* own task that writes it: the step from the processing of fetched rows to
\* the return of actualizada, or of error when the write itself fails. A
\* task that returns omitida, vacia or error before that (series up to date,
\* fetch failed, fetch empty) leaves the file as it was
C28_SeriesFrame ==
    [][\A p \in Provincias :
          archivo'[p] # archivo[p] =>
             /\ tpc[p] = "procesa"
             /\ tpc'[p] = "retornada"
             /\ futuro'[p].estado \in {"actualizada", "error"}]_vars

\* C28 witness: in a run after the first one the task of A has returned
\* omitida or error and the series it found, which has rows, is still there
C28_Witness ==
    /\ runPc = "corriendo"
    /\ futuro["A"].listo
    /\ futuro["A"].estado \in {"omitida", "error"}
    /\ archivo["A"].existe /\ archivo["A"].legible
    /\ Len(archivo["A"].df) > 0


---------------------------------------------------------------------------
(* Claims on the progress of the download run *)

\* C27: the lock is held only by a task inside the fetch section, so it is
\* released on every path out of it; a task leaves its wait for the lock
\* only by acquiring it; a run prints its report only when every task has
\* returned; and a run that started prints its report, so no task of it
\* waits or runs forever
C27_NoBlocking ==
    /\ [](\A p \in Provincias : lock = p => tpc[p] = "fetch")
    /\ [](runPc = "terminado" => \A p \in Provincias : tpc[p] = "retornada")
    /\ [][\A p \in Provincias :
             (tpc[p] = "espera_lock" /\ tpc'[p] # "espera_lock")
                 => (tpc'[p] = "fetch" /\ lock = "libre" /\ lock' = p)]_vars
    /\ (runPc = "corriendo") ~> (runPc = "terminado")

\* C27 witness: the run has printed its report after the fetch of A failed
\* while B was waiting for the lock (B then fetched and was updated)
C27_Witness ==
    /\ runPc = "terminado"
    /\ lock = "libre"
    /\ \A p \in Provincias : tpc[p] = "retornada"
    /\ futuro["A"].estado = "error" /\ archivo["A"] = SinCsv
    /\ futuro["B"].estado = "actualizada"

---------------------------------------------------------------------------
(* Claims on the hourly monitor *)

EnCiclo == nHilo \in {"clima", "graficos", "pronostico", "registro"}

\* the scripts a cycle has run when the monitor stands at `pc`
Corridos(pc) ==
    IF pc = "clima" THEN <<>>
    ELSE IF pc = "graficos" THEN SubSeq(GuionesCiclo, 1, 1)
    ELSE IF pc = "pronostico" THEN SubSeq(GuionesCiclo, 1, 2)
    ELSE GuionesCiclo

\* C29: the monitor exists only after the four start-up scripts were run; a
\* cycle is triggered exactly by a poll, made outside any cycle, that reads
\* an hour other than the recorded one; the cycle runs weather, charts and
\* forecast in this order whatever their outcomes; between two cycles the
\* recorded hour is the hour that triggered the last one, and the cycles
\* triggered never outnumber the hour changes since the monitor started
C29_HourlyMonitor ==
    /\ [](nHilo # "no_iniciado" => Guiones(nArranque) = GuionesArranque)
    /\ [](EnCiclo => /\ Guiones(nPasos) = Corridos(nHilo)
                     /\ hora_actual = nCiclos.disparo
                     /\ hora_actual # ultima_hora)
    /\ []((nHilo = "duerme" /\ nCiclos.hechos > 0)
              => /\ ultima_hora = nCiclos.disparo
                 /\ Guiones(nPasos) = GuionesCiclo)
    /\ [](nHilo \notin {"no_iniciado", "registra"}
              => nCiclos.hechos <= nAhora - nCiclos.desde)
    /\ [][/\ (nCiclos.hechos' # nCiclos.hechos
                 <=> (nHilo = "duerme" /\ nHilo' = "clima"))
          /\ (nHilo = "duerme" /\ hora_actual' # hora_actual)
                 => (nHilo' = "clima" <=> Hora(nAhora) # ultima_hora)
          /\ (EnCiclo /\ nHilo' = "duerme")
                 => (nHilo = "registro" /\ ultima_hora' = nCiclos.disparo)]_vars

\* C29 witness: two cycles were triggered; the last one ran its three
\* scripts although the first two failed, the clock went on during it, and
\* the monitor is back in its sleep with the triggering hour recorded
C29_Witness ==
    /\ nHilo = "duerme"
    /\ nCiclos.hechos = 2
    /\ Len(nPasos) = 3
    /\ ~nPasos[1].ok /\ ~nPasos[2].ok /\ nPasos[3].ok
    /\ ultima_hora = nCiclos.disparo
    /\ Hora(nAhora) # ultima_hora
    /\ \E i \in DOMAIN nArranque : ~nArranque[i].ok

---------------------------------------------------------------------------
(* Claims on the two files of the forecast run *)

\* C30: a step of a forecast run changes pronostico.json only when the
\* stamp check of pronostico.json failed at the start of the run, and
\* carousel.json only when the stamp check of carousel.json failed at the
\* start of the run; a run that reaches its writes rewrites, with the date
\* of the write, each file whose check failed. So a run that found the
\* forecast of today and no valid carousel of today rewrites the carousel
\* only, and the other way round
C30_PartialRegeneration ==
    [][/\ pronFile' # pronFile
             => /\ aFlags.pron
                /\ ~archivo_del_dia(pronFile, actual.dia_inicio)
       /\ carFile' # carFile
             => /\ aFlags.car
                /\ ~archivo_del_dia(carFile, actual.dia_inicio)
       /\ (aPc = "procesando" /\ aPc' = "pron_listo" /\ aFlags.pron)
             => (pronFile' # pronFile /\ archivo_del_dia(pronFile', reloj))
       /\ (aPc = "pron_listo" /\ aPc' = "fin" /\ aFlags.car)
             => (carFile' # carFile /\ archivo_del_dia(carFile', reloj))]_vars

\* C30 witness: the first run found a forecast file of today and no
\* carousel file; it has ended with the carousel of both provinces written
\* and the forecast file as it was
C30_Witness ==
    /\ aPc = "fin"
    /\ ~previo.valida
    /\ ~aFlags.pron /\ aFlags.car
    /\ ~actual.escribio_pron
    /\ pronFile.fecha_generacion = actual.dia_inicio
    /\ pronFile.provincias = <<>>
    /\ archivo_del_dia(carFile, reloj)
    /\ Len(carFile.provincias) = 2

---------------------------------------------------------------------------
(* Claims on the merge block *)

\* C3: the merge of the persisted series with the freshly fetched rows is
\* the union of both keyed by timestamp, holds one row per timestamp, is
\* sorted by timestamp, and keeps the fresh row wherever both hold one
C3_MergeNewestWins ==
    mPc = "hecho" =>
        /\ Horas(mFinal) = Horas(mExistente) \cup Horas(mData)
        /\ \A i, j \in DOMAIN mFinal :
              i < j => mFinal[i].fecha_hora < mFinal[j].fecha_hora
        /\ \A i \in DOMAIN mData : \E k \in DOMAIN mFinal : mFinal[k] = mData[i]
        /\ \A k \in DOMAIN mFinal :
              \/ \E i \in DOMAIN mData : mFinal[k] = mData[i]
              \/ \E i \in DOMAIN mExistente : mFinal[k] = mExistente[i]

\* C3 witness: a merge where an hour is held by both frames with different
\* rows, and another hour only by the persisted series
C3_Witness ==
    /\ mPc = "hecho"
    /\ \E i \in DOMAIN mExistente : \E j \in DOMAIN mData :
          /\ mExistente[i].fecha_hora = mData[j].fecha_hora
          /\ mExistente[i] # mData[j]
    /\ \E i \in DOMAIN mExistente :
          mExistente[i].fecha_hora \notin Horas(mData)
    /\ Len(mFinal) > Len(mData)

=============================================================================
